---- MODULE Spec2Model ----
(***************************************************************************)
(* A model of the runtime core of hibiki (src/src/state.ts, the second     *)
(* revision of the file, lines 1134-2424): the action processing pipeline  *)
(* of HibikiState (processActions, the registry of data node states and    *)
(* the invalidation sweeps), the event dispatch and the scope lookups of   *)
(* DataEnvironment, the scope a handler runs in and the context proxy,     *)
(* handler paths and handler calls (parseHandler, callHandler, callData),  *)
(* the fetch module, initialization, configuration and error reports, the  *)
(* capability handle (HibikiExtState) and the script queue; and of         *)
(* references, copies of values and handleConvertType                      *)
(* (src/unnamed/part_000).                                                 *)
(***************************************************************************)
EXTENDS Integers, Sequences, FiniteSets, TLC

VARIABLES
    DataRoots,       \* HibikiState.DataRoots: the root data, path -> value
    HtmlObj,         \* HibikiState.HtmlObj: the node tree (a document id)
    DataNodeStates,  \* HibikiState.DataNodeStates, in insertion order
    rra,             \* the batch handed to processActions
    pureRequest,     \* processActions' second argument
    idx,             \* the position at which the loop of the call ended (1-based)
    rtnval,          \* processActions' accumulator
    pstatus,         \* "idle", or how the last call ended: "returned" | "threw"
    refreshLog,      \* what each forceRefresh callback of this call observed
    rootBefore,      \* DataRoots when the call started
    htmlBefore,      \* HtmlObj when the call started
    envs,            \* the DataEnvironment objects built so far
    fired,           \* the last fireEvent call: its arguments
    outcome,         \* the last fireEvent call: what it did
    scopes,          \* DataEnvironment objects: parent, data, onlySpecials, specials
    heap,            \* the mapping objects (specials and callers' mappings), by reference
    result,          \* the last call of a lookup operation on a scope and what it returned
    Modules,         \* HibikiState.Modules: the names of the registered modules
    handlerCall,     \* the last callHandler call on a path and what its lookup did
    inflight,        \* the handler calls whose module has not settled, in invocation order
    lastCall,        \* the handler call whose promise settled last, and what it did
    fetchCall,       \* the last call of the fetch module and what it did
    sweep,           \* the last invalidation sweep called directly and what it did
    Initialized,     \* HibikiState.Initialized
    InitCallbacks,   \* HibikiState.InitCallbacks, in registration order
    Config,          \* HibikiState.Config: its errorCallback and initHandler
    ErrorCallback,   \* HibikiState.ErrorCallback
    pendingInit,     \* the initialize calls whose init handler has not settled
    initCall,        \* the last operation on these fields and what it did
    ScriptsLoaded,   \* HibikiState.ScriptsLoaded
    PostScriptRunQueue, \* HibikiState.PostScriptRunQueue, in queueing order
    scriptsloaded,   \* the value at $state.hibiki.scriptsloaded of the root data
    extCall,         \* the last operation of the capability handle and what it did
    store,           \* the values at the locations references designate
    objects,         \* the plain objects held in composite values, by identity
    composites,      \* the composite values built so far
    refCall          \* the last operation on a reference or a value and what it did

pvars == <<DataRoots, HtmlObj, DataNodeStates, rra, pureRequest, idx, rtnval,
           pstatus, refreshLog, rootBefore, htmlBefore>>
evars == <<envs, fired, outcome>>
svars == <<scopes, heap, result>>
hvars == <<Modules, handlerCall>>
cvars == <<inflight, lastCall>>
fvars == <<fetchCall>>
wvars == <<sweep>>
ivars == <<Initialized, InitCallbacks, Config, ErrorCallback, pendingInit, initCall>>
xvars == <<ScriptsLoaded, PostScriptRunQueue, scriptsloaded, extCall>>
lvars == <<store, objects, composites, refCall>>
gvars == <<xvars, lvars>>
rvars == <<cvars, fvars, wvars, ivars, gvars>>
vars == <<DataRoots, HtmlObj, DataNodeStates, rra, pureRequest, idx, rtnval,
          pstatus, refreshLog, rootBefore, htmlBefore, envs, fired, outcome,
          scopes, heap, result, Modules, handlerCall, inflight, lastCall,
          fetchCall, sweep, Initialized, InitCallbacks, Config, ErrorCallback,
          pendingInit, initCall, ScriptsLoaded, PostScriptRunQueue,
          scriptsloaded, extCall, store, objects, composites, refCall>>

----------------------------------------------------------------------------
(* Bounds and value domains *)

MaxBatch == 3

\* JavaScript's undefined / null for a field of an action
Undefined == "undefined"

RtnSelector == "@rtn"
RootPaths == {"a"}
DataValues == {1, 2}
Uuids == {"n1"}
Queries == {"q", "r"}

----------------------------------------------------------------------------
(* The action pipeline *)

\* An entry of a batch. entry = "null" is a null element of the array.
Action(e, t, s, p, d) == [entry |-> e, type |-> t, selector |-> s, path |-> p, data |-> d]

SetA1 == Action("object", "setdata", "a", Undefined, 1)
SetA2 == Action("object", "setdata", Undefined, "a", 2)
SetRtn1 == Action("object", "setdata", RtnSelector, Undefined, 1)
SetRtn2 == Action("object", "setdata", Undefined, RtnSelector, 2)
BlobRtn == Action("object", "blob", RtnSelector, Undefined, 1)
BlobExtRtn == Action("object", "blobext", RtnSelector, Undefined, 2)
InvalidateQ == Action("object", "invalidate", "q", Undefined, 0)
InvalidateBad == Action("object", "invalidate", "(", Undefined, 0)
InvalidateNoSel == Action("object", "invalidate", Undefined, Undefined, 0)
HtmlAction == Action("object", "html", Undefined, Undefined, 1)
UnknownKind == Action("object", "bogus", "a", Undefined, 1)
NullEntry == Action("null", Undefined, Undefined, Undefined, 0)

ActionAlphabet ==
    {SetA1, SetA2, SetRtn1, SetRtn2, BlobRtn, BlobExtRtn, InvalidateQ,
     InvalidateBad, InvalidateNoSel, HtmlAction, UnknownKind, NullEntry}

Batches == UNION {[1..n -> ActionAlphabet] : n \in 0..MaxBatch}

\* processActions' rtnval: null, a plain value, or a HibikiBlob with its content
NullRtn == [kind |-> "null", val |-> <<>>]
ValueRtn(d) == [kind |-> "value", val |-> <<d>>]

\* DataCtx.BlobFromRRA: a new HibikiBlob made of the action's data
BlobFromRRA(rr) == [kind |-> "blob", val |-> <<rr.data>>]

\* DataCtx.ExtBlobFromRRA: appends the action's data to the blob
ExtBlobFromRRA(blob, rr) == [blob EXCEPT !.val = Append(blob.val, rr.data)]

\* parseHtml: the node tree of the text (0 is the null tree)
ParseHtml(data) == IF data = 1 THEN 1 ELSE 0

\* The characters of the strings that are used as queries and patterns
Chars(s) ==
    CASE s = "q" -> <<"q">>
      [] s = "r" -> <<"r">>
      [] s = "(" -> <<"(">>
      [] s = "qr" -> <<"q", "r">>
      [] OTHER -> <<>>

\* new RegExp(queryReStr) throws a SyntaxError on an unbalanced parenthesis
RegExpThrows(queryReStr) ==
    /\ queryReStr # Undefined
    /\ \E i \in 1..Len(Chars(queryReStr)) : Chars(queryReStr)[i] = "("

\* query.match(new RegExp(queryReStr)): an unanchored search for the pattern;
\* new RegExp(undefined) is the empty pattern, which every string matches
RegExpMatch(queryReStr, query) ==
    \/ queryReStr = Undefined
    \/ LET pat == Chars(queryReStr)
           str == Chars(query)
       IN \E k \in 0..(Len(str) - Len(pat)) :
              \A j \in 1..Len(pat) : str[k + j] = pat[j]

\* Mutant of Selector: the selector field is ignored (let selector = rr.path)
Selector_PathOnly(rr) == rr.path

\* let selector = rr.selector ?? rr.path
Selector(rr) == IF rr.selector # Undefined THEN rr.selector ELSE rr.path

\* DataCtx.ApplySingleRRA: the direct state write of one action against the
\* root scope; an action that is no well-formed write is logged and skipped
ApplySingleRRA(root, rr) ==
    IF rr.type = "setdata" /\ Selector(rr) \in RootPaths
    THEN [root EXCEPT ![Selector(rr)] = rr.data]
    ELSE root

\* The entries of the registry whose forceRefresh a sweep with this pattern calls
RECURSIVE MatchingEntries(_, _)
MatchingEntries(nodes, queryReStr) ==
    IF nodes = <<>> THEN <<>>
    ELSE LET rest == MatchingEntries(Tail(nodes), queryReStr)
         IN IF RegExpMatch(queryReStr, Head(nodes).query)
            THEN <<Head(nodes)>> \o rest
            ELSE rest

\* What one forceRefresh callback, called for the action at position pos, reads
Observation(pos, dnq, root) == [pos |-> pos, uuid |-> dnq.uuid, root |-> root]

\* What dnstate.forceRefresh() of a registered entry does: it refreshes the
\* node and returns, or it throws
DnStates == {"refreshes", "throws"}

\* The forceRefresh calls of a loop over the entries hit, in order: none of the
\* three loops catches, so the first call that throws is the last one made
RECURSIVE ForceRefreshed(_)
ForceRefreshed(hit) ==
    IF hit = <<>> THEN <<>>
    ELSE IF Head(hit).dnstate = "throws" THEN <<Head(hit)>>
    ELSE <<Head(hit)>> \o ForceRefreshed(Tail(hit))

\* A sweep over the entries hit: the entries whose forceRefresh was called,
\* and whether the sweep ended with an exception
SweepOf(hit) ==
    [called |-> ForceRefreshed(hit),
     threw |-> \E k \in 1..Len(hit) : hit[k].dnstate = "throws"]
SweepThrew == [called |-> <<>>, threw |-> TRUE]

\* Mutant of SweepQuery: the query is matched as a pattern
SweepQuery_Match(nodes, query) == SweepOf(MatchingEntries(nodes, query))

\* HibikiState.invalidate(query): if (dnq.query != query) continue
SweepQuery(nodes, query) == SweepOf(SelectSeq(nodes, LAMBDA dnq : dnq.query = query))

\* HibikiState.invalidateRegex(queryReStr): new RegExp(queryReStr) may throw;
\* if (!dnq.query.match(queryRe)) continue
SweepRegex(nodes, queryReStr) ==
    IF RegExpThrows(queryReStr) THEN SweepThrew
    ELSE SweepOf(MatchingEntries(nodes, queryReStr))

\* HibikiState.invalidateAll()
SweepAll(nodes) == SweepOf(nodes)

\* HibikiState.invalidateRegex, called for the action at position pos: compiles
\* the pattern, then calls forceRefresh of every matching entry in registry
\* order, synchronously, with the root data as it is at this point of the loop;
\* an exception of the pattern or of a callback leaves processActions
InvalidateRegex(st, queryReStr, pos) ==
    LET sw == SweepRegex(DataNodeStates, queryReStr)
        s1 == [st EXCEPT !.log = st.log \o
                [k \in 1..Len(sw.called) |-> Observation(pos, sw.called[k], st.root)]]
    IN IF sw.threw THEN [s1 EXCEPT !.status = "threw"] ELSE s1

\* Mutant of ProcessAction: the test of pureRequest is missing
ProcessAction_NoPureCheck(st, rr, pos, pure) ==
    IF rr.entry = "null"
    THEN [st EXCEPT !.status = "threw"]
    ELSE
    LET selector == Selector(rr) IN
    IF rr.type = "setdata" /\ selector = RtnSelector
    THEN [st EXCEPT !.rtnval = ValueRtn(rr.data)]
    ELSE IF rr.type = "blob" /\ selector = RtnSelector
    THEN [st EXCEPT !.rtnval = BlobFromRRA(rr)]
    ELSE IF rr.type = "blobext" /\ selector = RtnSelector
    THEN IF st.rtnval.kind # "blob"
         THEN st
         ELSE [st EXCEPT !.rtnval = ExtBlobFromRRA(st.rtnval, rr)]
    ELSE LET s1 == IF rr.type = "invalidate"
                   THEN InvalidateRegex(st, selector, pos)
                   ELSE IF rr.type = "html"
                   THEN IF ParseHtml(rr.data) # 0
                        THEN [st EXCEPT !.html = ParseHtml(rr.data)]
                        ELSE st
                   ELSE st
         IN IF s1.status = "threw"
            THEN s1
            ELSE [s1 EXCEPT !.root = ApplySingleRRA(s1.root, rr)]

\* Mutant of ProcessAction: a blob-extend on "@rtn" with no blob to extend
\* clears the accumulator instead of leaving it
ProcessAction_BlobExtResets(st, rr, pos, pure) ==
    IF rr.entry = "null"
    THEN [st EXCEPT !.status = "threw"]
    ELSE
    LET selector == Selector(rr) IN
    IF rr.type = "setdata" /\ selector = RtnSelector
    THEN [st EXCEPT !.rtnval = ValueRtn(rr.data)]
    ELSE IF rr.type = "blob" /\ selector = RtnSelector
    THEN [st EXCEPT !.rtnval = BlobFromRRA(rr)]
    ELSE IF rr.type = "blobext" /\ selector = RtnSelector
    THEN IF st.rtnval.kind # "blob"
         THEN [st EXCEPT !.rtnval = NullRtn]
         ELSE [st EXCEPT !.rtnval = ExtBlobFromRRA(st.rtnval, rr)]
    ELSE IF pure
    THEN st
    ELSE LET s1 == IF rr.type = "invalidate"
                   THEN InvalidateRegex(st, selector, pos)
                   ELSE IF rr.type = "html"
                   THEN IF ParseHtml(rr.data) # 0
                        THEN [st EXCEPT !.html = ParseHtml(rr.data)]
                        ELSE st
                   ELSE st
         IN IF s1.status = "threw"
            THEN s1
            ELSE [s1 EXCEPT !.root = ApplySingleRRA(s1.root, rr)]

\* The call made for the action at position pos is added to the calls this
\* processActions call has made
Via(st, pos, path) == [st EXCEPT !.paths = Append(@, [pos |-> pos, path |-> path])]

\* One iteration of the loop of processActions, on the action rr at position pos
ProcessAction(st, rr, pos, pure) ==
    IF rr.entry = "null"
    THEN [st EXCEPT !.status = "threw"]   \* TypeError: reading rr.selector of null
    ELSE
    LET selector == Selector(rr) IN
    IF rr.type = "setdata" /\ selector = RtnSelector
    THEN [st EXCEPT !.rtnval = ValueRtn(rr.data)]
    ELSE IF rr.type = "blob" /\ selector = RtnSelector
    THEN [st EXCEPT !.rtnval = BlobFromRRA(rr)]
    ELSE IF rr.type = "blobext" /\ selector = RtnSelector
    THEN IF st.rtnval.kind # "blob"
         THEN st                            \* "Bad blobext:@rtn", logged
         ELSE [st EXCEPT !.rtnval = ExtBlobFromRRA(st.rtnval, rr)]
    ELSE IF pure
    THEN st
    ELSE LET s1 == IF rr.type = "invalidate"
                   THEN Via(InvalidateRegex(st, selector, pos), pos, "invalidateRegex")
                   ELSE IF rr.type = "html"
                   THEN Via(IF ParseHtml(rr.data) # 0
                            THEN [st EXCEPT !.html = ParseHtml(rr.data)]
                            ELSE st, pos, "parseHtml")
                   ELSE st
         IN IF s1.status = "threw"
            THEN s1
            ELSE Via([s1 EXCEPT !.root = ApplySingleRRA(s1.root, rr)],
                     pos, "ApplySingleRRA")

\* Mutant of LoopProcessActions: the forceRefresh callbacks are deferred to the
\* end of the batch, where they read the root data with every write applied
RECURSIVE LoopProcessActions_Deferred(_, _, _, _)
LoopProcessActions_Deferred(st, batch, pos, pure) ==
    IF pos > Len(batch)
    THEN [st EXCEPT !.status = "returned", !.idx = pos,
                    !.log = [k \in 1..Len(st.log) |->
                                [st.log[k] EXCEPT !.root = st.root]]]
    ELSE LET s1 == ProcessAction(st, batch[pos], pos, pure)
         IN IF s1.status = "threw"
            THEN [s1 EXCEPT !.idx = pos]
            ELSE LoopProcessActions_Deferred(s1, batch, pos + 1, pure)

\* Mutant of LoopProcessActions: the loop is left after an invalidate action
\* (a return where the code falls through to the next action)
RECURSIVE LoopProcessActions_Break(_, _, _, _)
LoopProcessActions_Break(st, batch, pos, pure) ==
    IF pos > Len(batch)
    THEN [st EXCEPT !.status = "returned", !.idx = pos]
    ELSE LET s1 == ProcessAction(st, batch[pos], pos, pure)
         IN IF s1.status = "threw"
            THEN [s1 EXCEPT !.idx = pos]
            ELSE IF batch[pos].type = "invalidate" /\ ~pure
            THEN [s1 EXCEPT !.status = "returned", !.idx = pos + 1]
            ELSE LoopProcessActions_Break(s1, batch, pos + 1, pure)

\* for (let rr of rra) { ... } return rtnval: the loop of processActions from
\* position pos on; an exception leaves the loop at the position that threw
RECURSIVE LoopProcessActions(_, _, _, _)
LoopProcessActions(st, batch, pos, pure) ==
    IF pos > Len(batch)
    THEN [st EXCEPT !.status = "returned", !.idx = pos]
    ELSE LET s1 == ProcessAction(st, batch[pos], pos, pure)
         IN IF s1.status = "threw"
            THEN [s1 EXCEPT !.idx = pos]
            ELSE LoopProcessActions(s1, batch, pos + 1, pure)

\* The state of a processActions call when it starts: let rtnval = null
CallState ==
    [root |-> DataRoots, html |-> HtmlObj, log |-> <<>>,
     rtnval |-> NullRtn, status |-> "running", idx |-> 1, paths |-> <<>>]

\* HibikiState.processActions(rra, pureRequest), a synchronous call: the whole
\* loop runs, with the forceRefresh callbacks it makes, before anything else
processActions(batch, pure) ==
    /\ LET st == LoopProcessActions(CallState, batch, 1, pure) IN
        /\ DataRoots' = st.root
        /\ HtmlObj' = st.html
        /\ refreshLog' = st.log
        /\ rtnval' = st.rtnval
        /\ pstatus' = st.status
        /\ idx' = st.idx
    /\ rra' = batch
    /\ pureRequest' = pure
    /\ rootBefore' = DataRoots
    /\ htmlBefore' = HtmlObj
    /\ UNCHANGED DataNodeStates
    /\ UNCHANGED <<evars, svars, hvars, rvars>>

----------------------------------------------------------------------------
(* Operations of the pipeline *)

\* runActions(rra): return this.processActions(rra, false)
runActions ==
    /\ pstatus = "idle"
    /\ \E batch \in Batches : processActions(batch, FALSE)

\* returnValueFromActions(rra): return this.processActions(rra, true)
returnValueFromActions ==
    /\ pstatus = "idle"
    /\ \E batch \in Batches : processActions(batch, TRUE)

\* processActions(null, pure): if (rra == null) return null
ProcessActionsNull ==
    /\ pstatus = "idle"
    /\ rra' = <<>>
    /\ pureRequest' \in BOOLEAN
    /\ pstatus' = "returned"
    /\ idx' = 1
    /\ rtnval' = NullRtn
    /\ refreshLog' = <<>>
    /\ rootBefore' = DataRoots
    /\ htmlBefore' = HtmlObj
    /\ UNCHANGED <<DataRoots, HtmlObj, DataNodeStates>>
    /\ UNCHANGED <<evars, svars, hvars, rvars>>

\* The caller has the call's return value, or its exception: the call is over
ReturnToCaller ==
    /\ pstatus \in {"returned", "threw"}
    /\ pstatus' = "idle"
    /\ rra' = <<>>
    /\ pureRequest' = FALSE
    /\ idx' = 1
    /\ rtnval' = NullRtn
    /\ refreshLog' = <<>>
    /\ rootBefore' = DataRoots
    /\ htmlBefore' = HtmlObj
    /\ UNCHANGED <<DataRoots, HtmlObj, DataNodeStates>>
    /\ UNCHANGED <<evars, svars, hvars, rvars>>

\* A registration that adds an entry and keeps the earlier one of the same id
RegisterEntry_KeepsOld(nodes, uuid, query, dnstate) ==
    Append(nodes, [uuid |-> uuid, query |-> query, dnstate |-> dnstate])

\* registerDataNodeState(uuid, query, dnstate): a key that is already there
\* keeps its place in the iteration order of the object
RegisterEntry(nodes, uuid, query, dnstate) ==
    LET dnq == [uuid |-> uuid, query |-> query, dnstate |-> dnstate] IN
    IF \E k \in 1..Len(nodes) : nodes[k].uuid = uuid
    THEN [k \in 1..Len(nodes) |-> IF nodes[k].uuid = uuid THEN dnq ELSE nodes[k]]
    ELSE Append(nodes, dnq)

registerDataNodeState ==
    /\ pstatus = "idle"
    /\ \E uuid \in Uuids, query \in Queries, dnstate \in DnStates :
        DataNodeStates' = RegisterEntry(DataNodeStates, uuid, query, dnstate)
    /\ UNCHANGED <<DataRoots, HtmlObj, rra, pureRequest, idx, rtnval, pstatus,
                   refreshLog, rootBefore, htmlBefore>>
    /\ UNCHANGED <<evars, svars, hvars, rvars>>

\* unregisterDataNodeState(uuid): delete this.DataNodeStates[uuid]
UnregisterEntry(nodes, uuid) == SelectSeq(nodes, LAMBDA e : e.uuid # uuid)

unregisterDataNodeState ==
    /\ pstatus = "idle"
    /\ \E uuid \in Uuids :
        DataNodeStates' = UnregisterEntry(DataNodeStates, uuid)
    /\ UNCHANGED <<DataRoots, HtmlObj, rra, pureRequest, idx, rtnval, pstatus,
                   refreshLog, rootBefore, htmlBefore>>
    /\ UNCHANGED <<evars, svars, hvars, rvars>>

----------------------------------------------------------------------------
(* The scope chain and the event dispatch *)

MaxEnvs == 3

Events == {"click", "hover", "error", "*", "load", "xcustom"}
HandlerSets == {{}, {"click"}, {"hover"}, {"click", "hover"}}
Boundaries == {"none", "soft", "hard"}

\* new DataEnvironment(dbstate, data, opts): parent is null (0), eventBoundary
\* is kept only when it is "soft" or "hard", handlers = opts.handlers || {}
DataEnvironment(boundary, handlers) ==
    [parent |-> 0,
     eventBoundary |-> IF boundary \in {"soft", "hard"} THEN boundary ELSE "none",
     handlers |-> handlers]

\* DataEnvironment.makeChildEnv(data, specials, opts) of the scope at index i:
\* a new DataEnvironment whose parent is that scope
MakeChildEnv(i, boundary, handlers) ==
    [DataEnvironment(boundary, handlers) EXCEPT !.parent = i]

\* Mutant of GetEventBoundary: a soft boundary stops the search for any event
RECURSIVE GetEventBoundary_SoftAlways(_, _, _)
GetEventBoundary_SoftAlways(es, i, event) ==
    IF i = 0 THEN 0
    ELSE IF es[i].eventBoundary = "hard" THEN i
    ELSE IF event # Undefined /\ es[i].eventBoundary = "soft" THEN i
    ELSE GetEventBoundary_SoftAlways(es, es[i].parent, event)

\* A search that stops at any scope that declares a handler for the event,
\* whatever its classification
RECURSIVE GetEventBoundary_AnyScope(_, _, _)
GetEventBoundary_AnyScope(es, i, event) ==
    IF i = 0 THEN 0
    ELSE IF es[i].eventBoundary = "hard" THEN i
    ELSE IF event # Undefined /\ (event = "*" \/ event \in es[i].handlers)
    THEN i
    ELSE GetEventBoundary_AnyScope(es, es[i].parent, event)

\* DataEnvironment.getEventBoundary(event) of the scope at index i; 0 is null
RECURSIVE GetEventBoundary(_, _, _)
GetEventBoundary(es, i, event) ==
    IF i = 0 THEN 0
    ELSE IF es[i].eventBoundary = "hard" THEN i
    ELSE IF /\ event # Undefined
            /\ es[i].eventBoundary = "soft"
            /\ (event = "*" \/ event \in es[i].handlers)
    THEN i
    ELSE GetEventBoundary(es, es[i].parent, event)

\* Mutant of UnhandledEvent: an "error" event goes to the error reporter
\* whether or not its data context carries an error
UnhandledEvent_NoPayloadTest(ev) ==
    IF ev.event = "error" THEN "reportErrorObj" ELSE "console.log"

\* HibikiState.unhandledEvent(event, rtctx): where the event is reported
UnhandledEvent(ev) ==
    IF ev.event = "error" /\ ev.hasError THEN "reportErrorObj" ELSE "console.log"

\* The first character of an event name
FirstChar(event) ==
    CASE event = "xcustom" -> "x"
      [] event = "load" -> "l"
      [] event = "click" -> "c"
      [] event = "hover" -> "h"
      [] event = "error" -> "e"
      [] event = "*" -> "*"
      [] OTHER -> ""

\* eventBubbles(event): false for "load" and for a name that starts with "x"
EventBubbles(event) ==
    IF event = "load" THEN FALSE
    ELSE IF FirstChar(event) = "x" THEN FALSE
    ELSE TRUE

\* What the source text of a handler does: it parses and runs, it does not
\* parse, or it parses and its execution fails
HandlerStrs == {"ok", "parseFails", "execFails"}

\* How a fireEvent call ends for its caller: it throws, or it returns null or
\* a promise that resolves or rejects; reported tells whether the failure went
\* to the error-reporting path
Completion(thrown, promise, reported) ==
    [thrown |-> thrown, promise |-> promise, reported |-> reported]

ReturnsNull == Completion(FALSE, "null", FALSE)

\* DataCtx.ParseBlockThrow(handlerStr) throws when the text does not parse
ParseBlockThrows(hval) == hval = "parseFails"

\* DataCtx.ExecuteBlockPThrow(block, env, rtctx): the promise rejects when the
\* execution of the block fails
ExecuteBlockPThrow(hval) ==
    Completion(FALSE, IF hval = "execFails" THEN "rejected" ELSE "resolved", FALSE)

\* DataCtx.ExecuteBlockP(tcfBlock, env, rtctx, false): a failure of the block
\* is caught and reported, the promise resolves
ExecuteBlockP(hval) ==
    Completion(FALSE, "resolved", hval = "execFails")

\* fireEvent once the boundary has the handler: the handler text is parsed
\* (outside any try) and the block is executed with or without throwErrors
ExecuteHandler(hval, throwErrors) ==
    IF ParseBlockThrows(hval) THEN Completion(TRUE, "none", FALSE)
    ELSE IF throwErrors THEN ExecuteBlockPThrow(hval)
    ELSE ExecuteBlockP(hval)

\* What a fireEvent call did: the boundary scopes it resolved, in order, the
\* scope whose handler it executes (0: none), the report of unhandledEvent,
\* and how the call ends for its caller
FireResult(trail, handlerEnv, unhandled, completion) ==
    [trail |-> trail, handlerEnv |-> handlerEnv, unhandled |-> unhandled,
     completion |-> completion]

\* Mutant of FireEvent: the bubble flag of the event is not tested
RECURSIVE FireEvent_AlwaysBubbles(_, _, _, _, _)
FireEvent_AlwaysBubbles(es, i, ev, throwErrors, trail) ==
    LET env == GetEventBoundary(es, i, ev.event) IN
    IF env = 0
    THEN FireResult(trail, 0, UnhandledEvent(ev), ReturnsNull)
    ELSE IF ev.event \notin es[env].handlers
    THEN IF es[env].parent = 0
         THEN FireResult(Append(trail, env), 0, "none", ReturnsNull)
         ELSE FireEvent_AlwaysBubbles(es, es[env].parent, ev, FALSE, Append(trail, env))
    ELSE FireResult(Append(trail, env), env, "none",
                    ExecuteHandler(ev.handlerStr, throwErrors))

\* Mutant of FireEvent: an event that stops at a boundary without a handler
\* for it is reported as unhandled
RECURSIVE FireEvent_ReportsStopped(_, _, _, _, _)
FireEvent_ReportsStopped(es, i, ev, throwErrors, trail) ==
    LET env == GetEventBoundary(es, i, ev.event) IN
    IF env = 0
    THEN FireResult(trail, 0, UnhandledEvent(ev), ReturnsNull)
    ELSE IF ev.event \notin es[env].handlers
    THEN IF ~ev.bubble \/ es[env].parent = 0
         THEN FireResult(Append(trail, env), 0, UnhandledEvent(ev), ReturnsNull)
         ELSE FireEvent_ReportsStopped(es, es[env].parent, ev, FALSE, Append(trail, env))
    ELSE FireResult(Append(trail, env), env, "none",
                    ExecuteHandler(ev.handlerStr, throwErrors))

\* DataEnvironment.fireEvent(event, rtctx, throwErrors) of the scope at index
\* i; trail holds the boundaries resolved so far. The call on the parent of a
\* boundary is fireEvent(event, rtctx): throwErrors is undefined there
RECURSIVE FireEvent(_, _, _, _, _)
FireEvent(es, i, ev, throwErrors, trail) ==
    LET env == GetEventBoundary(es, i, ev.event) IN
    IF env = 0
    THEN FireResult(trail, 0, UnhandledEvent(ev), ReturnsNull)
    ELSE IF ev.event \notin es[env].handlers
    THEN IF ~ev.bubble \/ es[env].parent = 0
         THEN FireResult(Append(trail, env), 0, "none", ReturnsNull)
         ELSE FireEvent(es, es[env].parent, ev, FALSE, Append(trail, env))
    ELSE FireResult(Append(trail, env), env, "none",
                    ExecuteHandler(ev.handlerStr, throwErrors))

\* No fireEvent call yet
NoFire ==
    [from |-> 0, event |-> Undefined, bubble |-> FALSE, hasError |-> FALSE,
     throwErrors |-> FALSE, handlerStr |-> "ok"]
NoOutcome == FireResult(<<>>, 0, "none", ReturnsNull)

----------------------------------------------------------------------------
(* Operations on scopes *)

\* new DataEnvironment(dbstate, data, opts): the root scope of the chain
NewDataEnvironment ==
    /\ envs = <<>>
    /\ \E boundary \in Boundaries, handlers \in HandlerSets :
        envs' = <<DataEnvironment(boundary, handlers)>>
    /\ UNCHANGED <<fired, outcome>>
    /\ UNCHANGED <<pvars, svars, hvars, rvars>>

\* env.makeChildEnv(data, specials, opts) on the innermost scope
makeChildEnv ==
    /\ envs # <<>>
    /\ fired = NoFire
    /\ Len(envs) < MaxEnvs
    /\ \E boundary \in Boundaries, handlers \in HandlerSets :
        envs' = Append(envs, MakeChildEnv(Len(envs), boundary, handlers))
    /\ UNCHANGED <<fired, outcome>>
    /\ UNCHANGED <<pvars, svars, hvars, rvars>>

\* env.fireEvent({event, bubble, datacontext}, rtctx, throwErrors) on any
\* scope. datacontext.error is drawn for an "error" event, and the handler
\* text for a call that reaches a handler (nothing else reads them)
fireEvent ==
    /\ envs # <<>>
    /\ fired = NoFire
    /\ \E i \in 1..Len(envs), event \in Events, bubble \in BOOLEAN,
          hasError \in BOOLEAN, throwErrors \in BOOLEAN, hval \in HandlerStrs :
        LET ev == [from |-> i, event |-> event, bubble |-> bubble,
                   hasError |-> hasError, throwErrors |-> throwErrors,
                   handlerStr |-> hval]
            res == FireEvent(envs, i, ev, throwErrors, <<>>)
        IN /\ hasError => event = "error"
           /\ hval # "ok" => res.handlerEnv # 0
           /\ fired' = ev
           /\ outcome' = res
    /\ UNCHANGED envs
    /\ UNCHANGED <<pvars, svars, hvars, rvars>>

\* The fireEvent call is over: its caller has what it returned
FireEventReturns ==
    /\ fired # NoFire
    /\ fired' = NoFire
    /\ outcome' = NoOutcome
    /\ UNCHANGED envs
    /\ UNCHANGED <<pvars, svars, hvars, rvars>>

----------------------------------------------------------------------------
(* Scopes: local data and specials *)

MaxScopes == 3

\* Property names of specials, the values bound to them, and local data
Keys == {"x", "y"}
Values == {1, 2, 3}
LocalData == {1, 2}

\* A property every object inherits from Object.prototype
ObjectPrototypeKeys == {"constructor"}
LookupKeys == Keys \cup ObjectPrototypeKeys

\* Mapping objects: {} and the mappings callers pass to makeChildEnv
EmptyObj == [k \in {} |-> 0]
SpecialsArgs == {[k \in {"x", "y"} |-> IF k = "x" THEN 1 ELSE 2], [k \in {"x"} |-> 3]}

\* What the proxy's set trap and a write to the returned mapping assign
WriteKeys == {"x"}
WriteValues == {3}

\* The JavaScript expression (key in obj): own and inherited properties
HasProperty(obj, key) == key \in DOMAIN obj \/ key \in ObjectPrototypeKeys

\* Object.assign(target, source): the own properties of source over target's
ObjectAssign(target, source) ==
    [k \in DOMAIN target \cup DOMAIN source |->
        IF k \in DOMAIN source THEN source[k] ELSE target[k]]

\* obj[key] = value
SetProperty(obj, key, value) == ObjectAssign(obj, [k \in {key} |-> value])

\* What a lookup operation returns or throws: thrown is the exception ("" for
\* none), kind tells what the value is, num, nums and refs hold it (refs are
\* references to mapping objects), map is the content of a mapping returned
Returned(kind, num, nums, refs, map) ==
    [thrown |-> "", kind |-> kind, num |-> num, nums |-> nums, refs |-> refs,
     map |-> map]
Throws(message) ==
    [thrown |-> message, kind |-> "none", num |-> 0, nums |-> <<>>,
     refs |-> <<>>, map |-> EmptyObj]
ReturnsNullValue == Returned("null", 0, <<>>, <<>>, EmptyObj)
ReturnsNumber(n) == Returned("number", n, <<>>, <<>>, EmptyObj)

\* obj[key] for a key with (key in obj): the own value, or the function
\* inherited from Object.prototype
GetProperty(obj, key) ==
    IF key \in DOMAIN obj THEN ReturnsNumber(obj[key])
    ELSE Returned("inherited", 0, <<>>, <<>>, EmptyObj)

\* this.data of a scope: null for the root scope of rootDataenv
DataOf(sc, i) ==
    IF sc[i].data = 0 THEN ReturnsNullValue ELSE ReturnsNumber(sc[i].data)

\* DataEnvironment.getContextKey(contextkey) of the scope at index i
RECURSIVE GetContextKey(_, _, _, _)
GetContextKey(sc, hp, i, contextkey) ==
    IF HasProperty(hp[sc[i].specials], contextkey)
    THEN GetProperty(hp[sc[i].specials], contextkey)
    ELSE IF sc[i].parent = 0 THEN ReturnsNullValue
    ELSE GetContextKey(sc, hp, sc[i].parent, contextkey)

\* Mutant of GetLocalStack: the onlySpecials scopes are not left out
RECURSIVE GetLocalStack_KeepsAll(_, _)
GetLocalStack_KeepsAll(sc, i) ==
    IF i = 0 THEN <<>>
    ELSE <<sc[i].data>> \o GetLocalStack_KeepsAll(sc, sc[i].parent)

\* DataEnvironment.getLocalStack() of the scope at index i
RECURSIVE GetLocalStack(_, _)
GetLocalStack(sc, i) ==
    IF i = 0 THEN <<>>
    ELSE (IF ~sc[i].onlySpecials THEN <<sc[i].data>> ELSE <<>>)
         \o GetLocalStack(sc, sc[i].parent)

\* DataEnvironment.getContextStack() of the scope at index i: the specials
\* objects themselves, nearest first
RECURSIVE GetContextStack(_, _)
GetContextStack(sc, i) ==
    IF i = 0 THEN <<>>
    ELSE <<sc[i].specials>> \o GetContextStack(sc, sc[i].parent)

\* The loop of getSquashedContext from position k of the stack down to 1
RECURSIVE SquashFrom(_, _, _, _)
SquashFrom(hp, stack, k, rtn) ==
    IF k < 1 THEN rtn
    ELSE SquashFrom(hp, stack, k - 1, ObjectAssign(rtn, hp[stack[k]]))

\* Mutant of GetSquashedContext: the stack is applied nearest first, so that
\* the definitions of the root win
RECURSIVE SquashUpFrom(_, _, _, _)
SquashUpFrom(hp, stack, k, rtn) ==
    IF k > Len(stack) THEN rtn
    ELSE SquashUpFrom(hp, stack, k + 1, ObjectAssign(rtn, hp[stack[k]]))

GetSquashedContext_RootWins(sc, hp, i) ==
    SquashUpFrom(hp, GetContextStack(sc, i), 1, EmptyObj)

\* DataEnvironment.getSquashedContext() of the scope at index i: the content
\* of the new object it returns
GetSquashedContext(sc, hp, i) ==
    LET stack == GetContextStack(sc, i)
    IN SquashFrom(hp, stack, Len(stack), EmptyObj)

\* The names resolveRoot is called with; "dyn" and "constructor" are not
\* names of roots
RootNames ==
    {"global", "data", "state", "local", "null", "nodedata", "context",
     "currentcontext", "localstack", "contextstack", "c", "component",
     "dyn", "constructor"}
Carets == {-1, 0, 1, 2}

\* The own properties of HibikiState.DataRoots
DataRootNames == {"global", "state"}

\* The scope that is n parents above the scope at index i; 0 is null
RECURSIVE Ancestor(_, _, _)
Ancestor(sc, i, n) ==
    IF n = 0 \/ i = 0 THEN i ELSE Ancestor(sc, sc[i].parent, n - 1)

\* DataEnvironment.resolveRoot(rootName, {caret}) of the scope at index i;
\* hasCaret is false when opts.caret is undefined
ResolveRoot(sc, hp, i, rootName, hasCaret, caret) ==
    IF (hasCaret /\ caret < 0) \/ (hasCaret /\ caret > 1)
    THEN Throws("Invalid caret value, must be 0 or 1")
    ELSE IF rootName \in {"global", "data"} THEN Returned("root:global", 0, <<>>, <<>>, EmptyObj)
    ELSE IF rootName = "state" THEN Returned("root:state", 0, <<>>, <<>>, EmptyObj)
    ELSE IF rootName = "local"
    THEN IF hasCaret /\ caret # 0
         THEN LET localstack == GetLocalStack(sc, i) IN
              IF Len(localstack) <= caret THEN ReturnsNullValue
              ELSE IF localstack[caret + 1] = 0 THEN ReturnsNullValue
              ELSE ReturnsNumber(localstack[caret + 1])
         ELSE DataOf(sc, i)
    ELSE IF rootName = "null" THEN ReturnsNullValue
    ELSE IF rootName = "nodedata" THEN Returned("nodedata", 0, <<>>, <<>>, EmptyObj)
    ELSE IF rootName = "context"
    THEN LET ref == IF hasCaret /\ caret # 0 THEN Ancestor(sc, i, caret) ELSE i IN
         IF ref = 0 THEN ReturnsNullValue
         ELSE Returned("proxy", ref, <<>>, <<>>, EmptyObj)
    ELSE IF rootName = "currentcontext"
    THEN LET ref == IF hasCaret /\ caret # 0 THEN Ancestor(sc, i, caret) ELSE i IN
         IF ref = 0 THEN ReturnsNullValue
         ELSE Returned("specials", ref, <<>>, <<sc[ref].specials>>, EmptyObj)
    ELSE IF rootName = "localstack"
    THEN Returned("localstack", 0, GetLocalStack(sc, i), <<>>, EmptyObj)
    ELSE IF rootName = "contextstack"
    THEN Returned("contextstack", 0, <<>>, GetContextStack(sc, i), EmptyObj)
    ELSE IF rootName \in {"c", "component"} THEN Returned("component", 0, <<>>, <<>>, EmptyObj)
    ELSE IF rootName \in DataRootNames \/ rootName \in ObjectPrototypeKeys
    THEN Returned(IF rootName \in DataRootNames THEN "root:dynamic" ELSE "inherited",
                  0, <<>>, <<>>, EmptyObj)
    ELSE Throws("Invalid root path")

\* A DataEnvironment object: parent (0 is null), data (0 is null),
\* onlySpecials, and the references of its specials and of the mapping its
\* maker was given (0: none)
Scope(parent, data, onlySpecials, specials, arg) ==
    [parent |-> parent, data |-> data, onlySpecials |-> onlySpecials,
     specials |-> specials, arg |-> arg]

\* Mutant of MakeChildEnvCopy: the child keeps the mapping it was given
MakeChildEnvCopy_NoCopy(hp, arg) ==
    IF arg = 0 THEN [heap |-> Append(hp, EmptyObj), specials |-> Len(hp) + 1]
    ELSE [heap |-> hp, specials |-> arg]

\* makeChildEnv: copiedSpecials = Object.assign({}, specials || {}), a new
\* object; arg is the reference of the mapping given (0: undefined)
MakeChildEnvCopy(hp, arg) ==
    [heap |-> Append(hp, ObjectAssign(EmptyObj, IF arg = 0 THEN EmptyObj ELSE hp[arg])),
     specials |-> Len(hp) + 1]

\* No call of a lookup operation is pending
NoResult ==
    [op |-> "none", scope |-> 0, name |-> "", hasCaret |-> FALSE, caret |-> 0,
     before |-> <<>>, out |-> ReturnsNullValue]

\* The contents of the specials of every scope
SpecialsOf(sc, hp) == [j \in 1..Len(sc) |-> hp[sc[j].specials]]

Call(op, i, name, hasCaret, caret, out) ==
    [op |-> op, scope |-> i, name |-> name, hasCaret |-> hasCaret,
     caret |-> caret, before |-> SpecialsOf(scopes, heap), out |-> out]

----------------------------------------------------------------------------
(* Operations on scopes: local data and specials *)

\* HibikiState.rootDataenv(): new DataEnvironment(this, null, opts); the
\* constructor sets specials = {}
rootDataenv ==
    /\ scopes = <<>>
    /\ scopes' = <<Scope(0, 0, FALSE, 1, 0)>>
    /\ heap' = <<EmptyObj>>
    /\ UNCHANGED result
    /\ UNCHANGED <<pvars, evars, hvars, rvars>>

\* The mapping a caller hands to makeChildEnv of the innermost scope: none, a
\* mapping of its own (a new object), or the specials of that scope
MakeChild(data, onlySpecials) ==
    /\ scopes # <<>>
    /\ result = NoResult
    /\ Len(scopes) < MaxScopes
    /\ \E given \in {"undefined", "own", "parent"} :
       \E m \in (IF given = "own" THEN SpecialsArgs ELSE {EmptyObj}) :
        LET hp == IF given = "own" THEN Append(heap, m) ELSE heap
            arg == CASE given = "undefined" -> 0
                     [] given = "own" -> Len(hp)
                     [] OTHER -> scopes[Len(scopes)].specials
            made == MakeChildEnvCopy(hp, arg)
        IN /\ heap' = made.heap
           /\ scopes' = Append(scopes, Scope(Len(scopes), data, onlySpecials,
                                             made.specials, arg))
    /\ UNCHANGED result
    /\ UNCHANGED <<pvars, evars, hvars, rvars>>

\* env.makeChildEnv(data, specials, opts) on the innermost scope
makeChildEnvData == \E data \in LocalData : MakeChild(data, FALSE)

\* env.makeSpecialChildEnv(specials, opts) on the innermost scope:
\* makeChildEnv(this.data, specials, opts), then onlySpecials = true
makeSpecialChildEnv ==
    /\ scopes # <<>>
    /\ MakeChild(scopes[Len(scopes)].data, TRUE)

\* The set trap of the context proxy of a scope: self.specials[prop] = value
SetSpecial ==
    /\ scopes # <<>>
    /\ result = NoResult
    /\ \E i \in 1..Len(scopes), prop \in WriteKeys, value \in WriteValues :
        heap' = [heap EXCEPT ![scopes[i].specials] = SetProperty(@, prop, value)]
    /\ UNCHANGED <<scopes, result>>
    /\ UNCHANGED <<pvars, evars, hvars, rvars>>

\* env.getContextKey(contextkey) on the innermost scope (a lookup reads the
\* scope and its ancestors only, and every chain is the prefix of a longer one)
getContextKey ==
    /\ scopes # <<>>
    /\ result = NoResult
    /\ \E i \in {Len(scopes)}, contextkey \in LookupKeys :
        result' = Call("getContextKey", i, contextkey, FALSE, 0,
                       GetContextKey(scopes, heap, i, contextkey))
    /\ UNCHANGED <<scopes, heap>>
    /\ UNCHANGED <<pvars, evars, hvars, rvars>>

\* env.getSquashedContext(): the mapping returned is a new object
getSquashedContext ==
    /\ scopes # <<>>
    /\ result = NoResult
    /\ \E i \in {Len(scopes)} :
        LET rtn == GetSquashedContext(scopes, heap, i) IN
        /\ heap' = Append(heap, rtn)
        /\ result' = Call("getSquashedContext", i, "", FALSE, 0,
                          Returned("object", 0, <<>>, <<Len(heap) + 1>>, rtn))
    /\ UNCHANGED scopes
    /\ UNCHANGED <<pvars, evars, hvars, rvars>>

\* The caller of getSquashedContext writes to the mapping it got
WriteReturned ==
    /\ result.op = "getSquashedContext"
    /\ \E prop \in WriteKeys, value \in WriteValues :
        heap' = [heap EXCEPT ![result.out.refs[1]] = SetProperty(@, prop, value)]
    /\ heap' # heap
    /\ UNCHANGED <<scopes, result>>
    /\ UNCHANGED <<pvars, evars, hvars, rvars>>

\* env.getLocalStack()
getLocalStack ==
    /\ scopes # <<>>
    /\ result = NoResult
    /\ \E i \in {Len(scopes)} :
        result' = Call("getLocalStack", i, "", FALSE, 0,
                       Returned("localstack", 0, GetLocalStack(scopes, i), <<>>, EmptyObj))
    /\ UNCHANGED <<scopes, heap>>
    /\ UNCHANGED <<pvars, evars, hvars, rvars>>

\* env.getContextStack()
getContextStack ==
    /\ scopes # <<>>
    /\ result = NoResult
    /\ \E i \in {Len(scopes)} :
        result' = Call("getContextStack", i, "", FALSE, 0,
                       Returned("contextstack", 0, <<>>, GetContextStack(scopes, i), EmptyObj))
    /\ UNCHANGED <<scopes, heap>>
    /\ UNCHANGED <<pvars, evars, hvars, rvars>>

\* env.resolveRoot(rootName, opts)
resolveRoot ==
    /\ scopes # <<>>
    /\ result = NoResult
    /\ \E i \in {Len(scopes)}, rootName \in RootNames, hasCaret \in BOOLEAN,
          caret \in Carets :
        /\ ~hasCaret => caret = 0
        /\ result' = Call("resolveRoot", i, rootName, hasCaret, caret,
                          ResolveRoot(scopes, heap, i, rootName, hasCaret, caret))
    /\ UNCHANGED <<scopes, heap>>
    /\ UNCHANGED <<pvars, evars, hvars, rvars>>

\* The call is over; the mapping getSquashedContext made is dropped by its caller
LookupReturns ==
    /\ result # NoResult
    /\ result' = NoResult
    /\ heap' = IF result.op = "getSquashedContext"
               THEN SubSeq(heap, 1, Len(heap) - 1) ELSE heap
    /\ UNCHANGED scopes
    /\ UNCHANGED <<pvars, evars, hvars, rvars>>

----------------------------------------------------------------------------
(* Handler paths and modules *)

MaxPathLen == 7

\* Strings are sequences of characters. The characters handler paths are drawn
\* from, and the classes of the pattern of parseHandler
PathChars == {"/", "@", ":", "a", "1"}
Letters ==
    {"a", "b", "c", "d", "e", "f", "g", "h", "i", "j", "k", "l", "m", "n",
     "o", "p", "q", "r", "s", "t", "u", "v", "w", "x", "y", "z", "A", "B",
     "C", "D", "E", "F", "G", "H", "I", "J", "K", "L", "M", "N", "O", "P",
     "Q", "R", "S", "T", "U", "V", "W", "X", "Y", "Z"}
Digits == {"0", "1", "2", "3", "4", "5", "6", "7", "8", "9"}
NsStartChars == Letters \cup {"_"}
NsChars == Letters \cup Digits \cup {"_"}
PathBodyChars == Letters \cup Digits \cup {".", "_", "/", "-"}
FragStartChars == Letters
FragChars == Letters \cup Digits \cup {"_", "-"}

\* A string argument that may be null, and a group of a match that may be
\* undefined
Str(chars) == [defined |-> TRUE, chars |-> chars]
NullStr == [defined |-> FALSE, chars |-> <<>>]

\* The expression (v ?? d) for a string v
NullishCoalesce(v, d) == IF v.defined THEN v.chars ELSE d

HandlerPaths ==
    {NullStr} \cup {Str(p) : p \in UNION {[1..n -> PathChars] : n \in 0..MaxPathLen}}

DefaultName == <<"d", "e", "f", "a", "u", "l", "t">>
FetchName == <<"f", "e", "t", "c", "h">>
ModuleNames == {DefaultName, <<"a">>}

\* Every character of s from position a to position b is in the class
AllIn(s, a, b, class) == \A k \in a..b : s[k] \in class

\* (?:/@([a-zA-Z_][a-zA-Z0-9_]*))? against the part p: group 1
MatchNs(p) ==
    IF p = <<>> THEN [ok |-> TRUE, group |-> NullStr]
    ELSE IF /\ Len(p) >= 3
            /\ p[1] = "/" /\ p[2] = "@"
            /\ p[3] \in NsStartChars
            /\ AllIn(p, 4, Len(p), NsChars)
    THEN [ok |-> TRUE, group |-> Str(SubSeq(p, 3, Len(p)))]
    ELSE [ok |-> FALSE, group |-> NullStr]

\* (/[a-zA-Z0-9._/-]*)? against the part p: group 2
MatchPath(p) ==
    IF p = <<>> THEN [ok |-> TRUE, group |-> NullStr]
    ELSE IF p[1] = "/" /\ AllIn(p, 2, Len(p), PathBodyChars)
    THEN [ok |-> TRUE, group |-> Str(p)]
    ELSE [ok |-> FALSE, group |-> NullStr]

\* (?:[:](@?[a-zA-Z][a-zA-Z0-9_-]*))? against the part p: group 3
MatchFrag(p) ==
    IF p = <<>> THEN [ok |-> TRUE, group |-> NullStr]
    ELSE LET start == IF Len(p) >= 2 /\ p[2] = "@" THEN 3 ELSE 2 IN
         IF /\ p[1] = ":"
            /\ Len(p) >= start
            /\ p[start] \in FragStartChars
            /\ AllIn(p, start + 1, Len(p), FragChars)
         THEN [ok |-> TRUE, group |-> Str(SubSeq(p, 2, Len(p)))]
         ELSE [ok |-> FALSE, group |-> NullStr]

\* The ways to cut s into the three parts of the anchored pattern
Splits(s) ==
    {c \in (0..Len(s)) \X (0..Len(s)) :
        /\ c[1] <= c[2]
        /\ MatchNs(SubSeq(s, 1, c[1])).ok
        /\ MatchPath(SubSeq(s, c[1] + 1, c[2])).ok
        /\ MatchFrag(SubSeq(s, c[2] + 1, Len(s))).ok}

\* What parseHandler returns: null, or {ns, path, pathfrag}
NullPath == [isNull |-> TRUE, ns |-> <<>>, path |-> <<>>, pathfrag |-> <<>>]
HandlerPathObj(ns, path, pathfrag) ==
    [isNull |-> FALSE, ns |-> ns, path |-> path, pathfrag |-> pathfrag]

\* handlerPath.match(pattern) and the object built from its groups
MatchHandler(s) ==
    IF Splits(s) = {} THEN NullPath
    ELSE LET c == CHOOSE c \in Splits(s) : TRUE IN
         HandlerPathObj(
             NullishCoalesce(MatchNs(SubSeq(s, 1, c[1])).group, <<>>),
             NullishCoalesce(MatchPath(SubSeq(s, c[1] + 1, c[2])).group, <<"/">>),
             NullishCoalesce(MatchFrag(SubSeq(s, c[2] + 1, Len(s))).group, <<>>))

\* Mutant of ParseHandler: the first character is not tested
ParseHandler_NoSlashTest(handlerPath) ==
    IF ~handlerPath.defined \/ handlerPath.chars = <<>>
    THEN NullPath
    ELSE MatchHandler(handlerPath.chars)

\* parseHandler(handlerPath)
ParseHandler(handlerPath) ==
    IF \/ ~handlerPath.defined
       \/ handlerPath.chars = <<>>
       \/ handlerPath.chars[1] # "/"
    THEN NullPath
    ELSE MatchHandler(handlerPath.chars)

\* What callHandlerInternalAsync did up to the call of the module: the
\* exception it threw ("" for none), the parsed path, the module name it
\* looked up and the module it invoked (<<>> for none)
HandlerCall(handlerPath, thrown, hpath, moduleName, invoked) ==
    [handlerPath |-> handlerPath, thrown |-> thrown, hpath |-> hpath,
     moduleName |-> moduleName, invoked |-> invoked]

\* Mutant of CallHandlerInternalAsync: a module that is not registered is
\* replaced by the fetch module
CallHandlerInternalAsync_Fallback(mods, handlerPath) ==
    IF ~handlerPath.defined \/ handlerPath.chars = <<>>
    THEN HandlerCall(handlerPath, "Invalid handler path", NullPath, <<>>, <<>>)
    ELSE LET hpath == ParseHandler(handlerPath) IN
         IF hpath.isNull
         THEN HandlerCall(handlerPath, "Invalid handler path: ", hpath, <<>>, <<>>)
         ELSE LET moduleName == NullishCoalesce(Str(hpath.ns), DefaultName) IN
              IF moduleName \notin mods
              THEN HandlerCall(handlerPath, "", hpath, FetchName, FetchName)
              ELSE HandlerCall(handlerPath, "", hpath, moduleName, moduleName)

\* HibikiState.callHandlerInternalAsync(handlerPath, handlerData, pureRequest)
\* with the modules mods registered
CallHandlerInternalAsync(mods, handlerPath) ==
    IF ~handlerPath.defined \/ handlerPath.chars = <<>>
    THEN HandlerCall(handlerPath, "Invalid handler path", NullPath, <<>>, <<>>)
    ELSE LET hpath == ParseHandler(handlerPath) IN
         IF hpath.isNull
         THEN HandlerCall(handlerPath, "Invalid handler path: ", hpath, <<>>, <<>>)
         ELSE LET moduleName == NullishCoalesce(Str(hpath.ns), DefaultName) IN
              IF moduleName \notin mods
              THEN HandlerCall(handlerPath, "Invalid handler, no module found",
                               hpath, moduleName, <<>>)
              ELSE HandlerCall(handlerPath, "", hpath, moduleName, moduleName)

NoHandlerCall == HandlerCall(NullStr, "none", NullPath, <<>>, <<>>)

\* state.Modules[name] = module, by the code that embeds the state
RegisterModule ==
    /\ handlerCall = NoHandlerCall
    /\ \E name \in ModuleNames \ Modules : Modules' = Modules \cup {name}
    /\ UNCHANGED handlerCall
    /\ UNCHANGED <<pvars, evars, svars, rvars>>

\* The synchronous part of a handler call, for every path up to the length
\* bound: callHandlerInternalAsync from its first line to the lookup of the
\* module (state.ts 2101-2113), as callHandler and callData both start it
callHandlerPath ==
    /\ handlerCall = NoHandlerCall
    /\ \E handlerPath \in HandlerPaths :
        handlerCall' = CallHandlerInternalAsync(Modules, handlerPath)
    /\ UNCHANGED Modules
    /\ UNCHANGED <<pvars, evars, svars, rvars>>

\* The caller has seen what the lookup did
CallHandlerReturns ==
    /\ handlerCall # NoHandlerCall
    /\ handlerCall' = NoHandlerCall
    /\ UNCHANGED Modules
    /\ UNCHANGED <<pvars, evars, svars, rvars>>

----------------------------------------------------------------------------
(* Handler calls as a whole: callHandler, callData, the module's result *)

MaxCalls == 2

\* The paths of the calls: null, "", "a", "/a", "/@b/a" and "/@a/a:a"
GatewayPaths ==
    {NullStr, Str(<<>>), Str(<<"a">>), Str(<<"/", "a">>),
     Str(<<"/", "@", "b", "/", "a">>),
     Str(<<"/", "@", "a", "/", "a", ":", "a">>)}

\* The opts argument of callHandler and callData: left out, or an object
\* with a runtime context
NoOpts == [defined |-> FALSE, rtContext |-> Undefined]
Opts(rtContext) == [defined |-> TRUE, rtContext |-> rtContext]
OptsArgs == {NoOpts, Opts("rtctx")}

\* opts = opts || {}
OrEmpty(opts) == IF opts.defined THEN opts ELSE Opts(Undefined)

\* The handlerData argument
HandlerData == "args"

\* What a module's promise settles with: null, a number, an object without
\* the field hibikiactions, an object whose field is not an array, an object
\* whose field is an array of actions
ModuleValue(type, hasField, isArray, actions) ==
    [type |-> type, hasField |-> hasField, isArray |-> isArray,
     hibikiactions |-> actions]
NullData == ModuleValue("null", FALSE, FALSE, <<>>)
NumberData == ModuleValue("number", FALSE, FALSE, <<>>)
PlainObject == ModuleValue("object", FALSE, FALSE, <<>>)
FieldNotArray == ModuleValue("object", TRUE, FALSE, <<>>)
ActionsData(batch) == ModuleValue("object", TRUE, TRUE, batch)

GatewayBatches ==
    {<<>>, <<SetA1>>, <<SetA2, SetA1>>, <<SetA1, SetA2>>, <<SetA2, SetRtn1>>,
     <<SetA1, InvalidateBad, SetA2>>, <<InvalidateQ, NullEntry>>}

ModuleData ==
    {NullData, NumberData, PlainObject, FieldNotArray}
        \cup {ActionsData(b) : b \in GatewayBatches}

\* How the promise of a call settles, and the error reports the call made
Undef == [kind |-> "undefined", data |-> NullData, rtn |-> NullRtn]
DataValue(data) == [kind |-> "data", data |-> data, rtn |-> NullRtn]
RtnValue(rtn) == [kind |-> "rtnval", data |-> NullData, rtn |-> rtn]
TypeError == [kind |-> "TypeError", data |-> NullData, rtn |-> NullRtn]
Resolved(value) == [state |-> "resolved", value |-> value]
Rejected(value) == [state |-> "rejected", value |-> value]

\* new HibikiError(sprintf("Error calling handler %s", handlerPath), e, rtContext)
HibikiError(message, handlerPath, e, rtContext) ==
    [message |-> message, handlerPath |-> handlerPath, cause |-> e,
     rtContext |-> rtContext]

\* The request record of callHandlerInternalAsync, whose own opts argument is
\* opts (opts = opts || {} comes first)
RequestType(hc, handlerData, pure, opts) ==
    [path |-> [module |-> hc.moduleName, path |-> hc.hpath.path,
               pathfrag |-> hc.hpath.pathfrag],
     data |-> handlerData,
     rtContext |-> OrEmpty(opts).rtContext,
     state |-> "HibikiExtState",
     pure |-> pure]
NoRequest ==
    [path |-> [module |-> <<>>, path |-> <<>>, pathfrag |-> <<>>],
     data |-> Undefined, rtContext |-> Undefined, state |-> Undefined,
     pure |-> FALSE]

\* The two entry points: callData makes a pure request, and only callHandler
\* starts with opts = opts || {}
PureRequest(entry) == entry = "callData"
ErrorMessage(entry) ==
    IF entry = "callData" THEN "Error calling data handler" ELSE "Error calling handler"
CatchOpts(entry, opts) == IF entry = "callHandler" THEN OrEmpty(opts) ELSE opts

\* handlerP.catch((e) => {...}): reading opts.rtContext of an undefined opts
\* throws a TypeError inside the callback, which rejects the promise returned
Catch(entry, opts, handlerPath, e) ==
    LET o == CatchOpts(entry, opts) IN
    IF ~o.defined
    THEN [promise |-> Rejected(TypeError), reports |-> <<>>]
    ELSE [promise |-> Resolved(Undef),
          reports |-> <<HibikiError(ErrorMessage(entry), handlerPath, e, o.rtContext)>>]

\* Mutant of FeedsPipeline: the test Array.isArray is missing
FeedsPipeline_AnyField(data) ==
    ~(data.type = "null" \/ data.type # "object" \/ ~data.hasField)

\* The test of the then callback (state.ts 2127), negated
FeedsPipeline(data) ==
    ~(data.type = "null" \/ data.type # "object" \/ ~data.hasField \/ ~data.isArray)

\* Mutant of ThenCallback: the then callback applies the first action of the
\* batch and leaves the rest to a later turn
ThenCallback_FirstAction(st, data, pure) ==
    IF FeedsPipeline(data)
    THEN LoopProcessActions(st, SelectSeq(data.hibikiactions, LAMBDA rr : rr = Head(data.hibikiactions)), 1, pure)
    ELSE [st EXCEPT !.status = "passed"]

\* rtnp.then((data) => {...}) with the state st: the result goes through
\* processActions, as one synchronous call, or is returned as it is
ThenCallback(st, data, pure) ==
    IF FeedsPipeline(data)
    THEN LoopProcessActions(st, data.hibikiactions, 1, pure)
    ELSE [st EXCEPT !.status = "passed"]

\* A call: its arguments, what the synchronous part did, the request the
\* module received, what the module settled with, what was done with it and
\* how the promise returned to the caller settled
NoSettle == [settled |-> FALSE, rejected |-> FALSE, data |-> NullData]
Settle(rejected, data) == [settled |-> TRUE, rejected |-> rejected, data |-> data]
\* overtaken: a call invoked after this one has settled while this one was
\* still in flight
PendingCall(entry, opts, hc, req) ==
    [entry |-> entry, opts |-> opts, hc |-> hc, req |-> req, overtaken |-> FALSE]
EndedCall(call, settle, st, earlier, caught) ==
    [entry |-> call.entry, opts |-> call.opts, hc |-> call.hc, req |-> call.req,
     overtaken |-> call.overtaken, settle |-> settle,
     fed |-> st.status \in {"returned", "threw"},
     pstatus |-> st.status, idx |-> st.idx, refreshLog |-> st.log,
     earlierPending |-> earlier,
     promise |-> caught.promise, reports |-> caught.reports]
NoCall ==
    [entry |-> "none", opts |-> NoOpts, hc |-> NoHandlerCall, req |-> NoRequest,
     overtaken |-> FALSE, settle |-> NoSettle, fed |-> FALSE, pstatus |-> "idle",
     idx |-> 1, refreshLog |-> <<>>, earlierPending |-> FALSE,
     promise |-> Resolved(Undef), reports |-> <<>>]

\* The calls that stay in flight when the i-th one settles
StillInFlight(calls, i) ==
    [k \in 1..(Len(calls) - 1) |->
        IF k < i THEN [calls[k] EXCEPT !.overtaken = TRUE] ELSE calls[k + 1]]

\* The module was found and module.callHandler(req) is called: it throws, which
\* rejects the promise of the async function, or returns a promise
ModuleCalled(entry, opts, hc, throws) ==
    LET call == PendingCall(entry, opts, hc,
                    RequestType(hc, HandlerData, PureRequest(entry), NoOpts))
    IN IF throws
       THEN /\ lastCall' = EndedCall(call, NoSettle, [CallState EXCEPT !.status = "none"],
                                     FALSE, Catch(entry, opts, hc.handlerPath, "module threw"))
            /\ UNCHANGED inflight
       ELSE /\ inflight' = Append(inflight, call)
            /\ UNCHANGED lastCall

\* callHandler(handlerPath, handlerData, opts) and callData(handlerPath,
\* handlerData, opts) up to the call of the module: both call
\* callHandlerInternalAsync without its fourth argument
StartCall(entry, handlerPath, opts) ==
    LET hc == CallHandlerInternalAsync(Modules, handlerPath) IN
    /\ IF hc.thrown # ""
       THEN /\ lastCall' = EndedCall(PendingCall(entry, opts, hc, NoRequest), NoSettle,
                                     [CallState EXCEPT !.status = "none"], FALSE,
                                     Catch(entry, opts, handlerPath, hc.thrown))
            /\ UNCHANGED inflight
       ELSE \E throws \in BOOLEAN : ModuleCalled(entry, opts, hc, throws)
    /\ UNCHANGED <<pvars, evars, svars, hvars, fvars, wvars, ivars, gvars>>

callHandler ==
    /\ lastCall = NoCall
    /\ Len(inflight) < MaxCalls
    /\ \E handlerPath \in GatewayPaths, opts \in OptsArgs :
        StartCall("callHandler", handlerPath, opts)

callData ==
    /\ lastCall = NoCall
    /\ Len(inflight) < MaxCalls
    /\ \E handlerPath \in GatewayPaths, opts \in OptsArgs :
        StartCall("callData", handlerPath, opts)

\* The promise of the module of the i-th call in flight is rejected: the catch
\* callback of the entry point runs
ModuleRejects ==
    /\ lastCall = NoCall
    /\ \E i \in 1..Len(inflight) :
        LET call == inflight[i] IN
        /\ lastCall' = EndedCall(call, Settle(TRUE, NullData),
                                 [CallState EXCEPT !.status = "none"], i > 1,
                                 Catch(call.entry, call.opts, call.hc.handlerPath,
                                       "module rejected"))
        /\ inflight' = StillInFlight(inflight, i)
    /\ UNCHANGED <<pvars, evars, svars, hvars, fvars, wvars, ivars, gvars>>

\* The promise of the module of the i-th call in flight is fulfilled with
\* data: the then callback runs to its end, and the catch callback after it
\* when processActions threw
ModuleSettles ==
    /\ lastCall = NoCall
    /\ \E i \in 1..Len(inflight), data \in ModuleData :
        LET call == inflight[i]
            st == ThenCallback(CallState, data, call.req.pure)
        IN /\ DataRoots' = st.root
           /\ HtmlObj' = st.html
           /\ lastCall' = EndedCall(call, Settle(FALSE, data), st, i > 1,
                            IF st.status = "threw"
                            THEN Catch(call.entry, call.opts, call.hc.handlerPath,
                                       "processActions threw")
                            ELSE [promise |-> Resolved(IF st.status = "passed"
                                                       THEN DataValue(data)
                                                       ELSE RtnValue(st.rtnval)),
                                  reports |-> <<>>])
           /\ inflight' = StillInFlight(inflight, i)
    /\ UNCHANGED <<DataNodeStates, rra, pureRequest, idx, rtnval, pstatus,
                   refreshLog, rootBefore, htmlBefore>>
    /\ UNCHANGED <<evars, svars, hvars, fvars, wvars, ivars, gvars>>

\* The caller has seen how the promise settled
CallReturns ==
    /\ lastCall # NoCall
    /\ lastCall' = NoCall
    /\ UNCHANGED inflight
    /\ UNCHANGED <<pvars, evars, svars, hvars, fvars, wvars, ivars, gvars>>

----------------------------------------------------------------------------
(* The fetch module *)

MaxMethodLen == 3

LowerCase ==
    <<"a", "b", "c", "d", "e", "f", "g", "h", "i", "j", "k", "l", "m",
      "n", "o", "p", "q", "r", "s", "t", "u", "v", "w", "x", "y", "z">>
UpperCase ==
    <<"A", "B", "C", "D", "E", "F", "G", "H", "I", "J", "K", "L", "M",
      "N", "O", "P", "Q", "R", "S", "T", "U", "V", "W", "X", "Y", "Z">>

\* String.prototype.toUpperCase on a string of ASCII characters
ToUpperCase(chars) ==
    [k \in 1..Len(chars) |->
        IF \E j \in 1..26 : LowerCase[j] = chars[k]
        THEN UpperCase[CHOOSE j \in 1..26 : LowerCase[j] = chars[k]]
        ELSE chars[k]]

\* let VALID_METHODS = {"GET": true, "POST": true, "PUT": true, "PATCH": true,
\* "DELETE": true}
VALID_METHODS ==
    {<<"G", "E", "T">>, <<"P", "O", "S", "T">>, <<"P", "U", "T">>,
     <<"P", "A", "T", "C", "H">>, <<"D", "E", "L", "E", "T", "E">>}

\* The fragments of the calls: every string of the letters of "get" in
\* either case up to the length bound, the other verbs in some spellings,
\* "TRACE", "HEAD", "@get", and null
MethodChars == {"g", "e", "t", "G", "E", "T"}
MethodFrags ==
    {Str(f) : f \in UNION {[1..n -> MethodChars] : n \in 0..MaxMethodLen}}
      \cup {Str(<<"P", "O", "S", "T">>), Str(<<"p", "o", "s", "t">>),
            Str(<<"P", "u", "t">>), Str(<<"p", "a", "t", "c", "h">>),
            Str(<<"D", "e", "l", "e", "t", "e">>), Str(<<"d", "e", "l", "e", "t", "e">>),
            Str(<<"T", "R", "A", "C", "E">>), Str(<<"t", "r", "a", "c", "e">>),
            Str(<<"H", "E", "A", "D">>), Str(<<"@", "g", "e", "t">>), NullStr}

\* req.data: the first element is missing, a number, a string that is not a
\* URL or a URL; the second is missing, an object or an array
UrlArgs == {"missing", "number", "notAUrl", "url"}
ParamsArgs == {"missing", "object", "array"}
Responses == {"notOk", "json", "blob", "badBlob"}

\* isObject(params): true of an object that is not an array
IsObject(params) == params = "object"

\* What a call of the fetch module did: the exception thrown, the arguments
\* examined before it, the request issued and how the promise returned settled
FetchCall(pathfrag, urlStr, params, thrown, examined, request, promise) ==
    [pathfrag |-> pathfrag, urlStr |-> urlStr, params |-> params,
     thrown |-> thrown, examined |-> examined, request |-> request,
     promise |-> promise]
NoRequestIssued == [issued |-> FALSE, method |-> <<>>, query |-> FALSE, body |-> FALSE]
FetchRequest(method, params) ==
    [issued |-> TRUE, method |-> method,
     query |-> params # "missing" /\ method \in {<<"G", "E", "T">>, <<"D", "E", "L", "E", "T", "E">>},
     body |-> params # "missing" /\ method \notin {<<"G", "E", "T">>, <<"D", "E", "L", "E", "T", "E">>}]

\* fetch(...).then((resp) => {...}): a response that is not ok rejects, a JSON
\* response is parsed, any other is read as a blob; the exception thrown in
\* onloadend for a bad blob leaves the promise pending
ResponseThen(resp) ==
    CASE resp = "notOk" -> "rejected"
      [] resp = "json" -> "json"
      [] resp = "blob" -> "blob"
      [] OTHER -> "pending"

\* Mutant of FetchCallHandler: the method is compared as it was written
FetchCallHandler_NoUpperCase(pathfrag, urlStr, params, resp) ==
    IF ~pathfrag.defined
    THEN FetchCall(pathfrag, urlStr, params, "Invalid null method", {}, NoRequestIssued, "none")
    ELSE LET method == pathfrag.chars IN
    IF method \notin VALID_METHODS
    THEN FetchCall(pathfrag, urlStr, params, "Invalid method", {}, NoRequestIssued, "none")
    ELSE IF urlStr \in {"missing", "number"}
    THEN FetchCall(pathfrag, urlStr, params, "first argument must be a string",
                   {"url"}, NoRequestIssued, "none")
    ELSE IF urlStr = "notAUrl"
    THEN FetchCall(pathfrag, urlStr, params, "Invalid URL", {"url"}, NoRequestIssued, "none")
    ELSE IF params # "missing" /\ ~IsObject(params)
    THEN FetchCall(pathfrag, urlStr, params, "Invalid params", {"url", "params"},
                   NoRequestIssued, "none")
    ELSE FetchCall(pathfrag, urlStr, params, "", {"url", "params"},
                   FetchRequest(method, params), ResponseThen(resp))

\* FetchModule.callHandler(req) with req.path.pathfrag = pathfrag and
\* req.data = [urlStr, params]; resp is the response to the request
FetchCallHandler(pathfrag, urlStr, params, resp) ==
    IF ~pathfrag.defined
    THEN FetchCall(pathfrag, urlStr, params, "Invalid null method", {}, NoRequestIssued, "none")
    ELSE LET method == ToUpperCase(pathfrag.chars) IN
    IF method \notin VALID_METHODS
    THEN FetchCall(pathfrag, urlStr, params, "Invalid method", {}, NoRequestIssued, "none")
    ELSE IF urlStr \in {"missing", "number"}
    THEN FetchCall(pathfrag, urlStr, params, "first argument must be a string",
                   {"url"}, NoRequestIssued, "none")
    ELSE IF urlStr = "notAUrl"
    THEN FetchCall(pathfrag, urlStr, params, "Invalid URL", {"url"}, NoRequestIssued, "none")
    ELSE IF params # "missing" /\ ~IsObject(params)
    THEN FetchCall(pathfrag, urlStr, params, "Invalid params", {"url", "params"},
                   NoRequestIssued, "none")
    ELSE FetchCall(pathfrag, urlStr, params, "", {"url", "params"},
                   FetchRequest(method, params), ResponseThen(resp))

NoFetchCall == FetchCall(NullStr, "missing", "missing", "none", {}, NoRequestIssued, "none")

fetchCallHandler ==
    /\ fetchCall = NoFetchCall
    /\ \E pathfrag \in MethodFrags, urlStr \in UrlArgs, params \in ParamsArgs,
          resp \in Responses :
        fetchCall' = FetchCallHandler(pathfrag, urlStr, params, resp)
    /\ UNCHANGED <<pvars, evars, svars, hvars, cvars, wvars, ivars, gvars>>

\* The caller of the module has seen what the call did
FetchCallReturns ==
    /\ fetchCall # NoFetchCall
    /\ fetchCall' = NoFetchCall
    /\ UNCHANGED <<pvars, evars, svars, hvars, cvars, wvars, ivars, gvars>>

----------------------------------------------------------------------------
(* Invalidation sweeps called directly, on a registry of several entries *)

SweepUuids == {"n1", "n2", "n3"}
SweepQueries == {"q", "r", "qr"}
SweepPatterns == {"q", "r", "qr", "(", Undefined}

\* The fields of the pipeline a sweep does not touch
callvars ==
    <<DataRoots, HtmlObj, rra, pureRequest, idx, rtnval, pstatus, refreshLog,
      rootBefore, htmlBefore>>

\* What a sweep did: the entries whose forceRefresh it called, in order, and
\* whether it ended with an exception
Sweep(op, arg, sw) == [op |-> op, arg |-> arg, called |-> sw.called, threw |-> sw.threw]
NoSweep == [op |-> "none", arg |-> Undefined, called |-> <<>>, threw |-> FALSE]

\* registerDataNodeState / unregisterDataNodeState for the entries of a sweep
RegisterSweepNode ==
    /\ sweep = NoSweep
    /\ \E uuid \in SweepUuids, query \in SweepQueries, dnstate \in DnStates :
        DataNodeStates' = RegisterEntry(DataNodeStates, uuid, query, dnstate)
    /\ UNCHANGED <<callvars, evars, svars, hvars, cvars, fvars, wvars, ivars, gvars>>

UnregisterSweepNode ==
    /\ sweep = NoSweep
    /\ \E uuid \in SweepUuids :
        DataNodeStates' = UnregisterEntry(DataNodeStates, uuid)
    /\ UNCHANGED <<callvars, evars, svars, hvars, cvars, fvars, wvars, ivars, gvars>>

invalidate ==
    /\ sweep = NoSweep
    /\ \E query \in SweepQueries :
        sweep' = Sweep("invalidate", query, SweepQuery(DataNodeStates, query))
    /\ UNCHANGED <<pvars, evars, svars, hvars, cvars, fvars, ivars, gvars>>

invalidateRegex ==
    /\ sweep = NoSweep
    /\ \E queryReStr \in SweepPatterns :
        sweep' = Sweep("invalidateRegex", queryReStr, SweepRegex(DataNodeStates, queryReStr))
    /\ UNCHANGED <<pvars, evars, svars, hvars, cvars, fvars, ivars, gvars>>

invalidateAll ==
    /\ sweep = NoSweep
    /\ sweep' = Sweep("invalidateAll", Undefined, SweepAll(DataNodeStates))
    /\ UNCHANGED <<pvars, evars, svars, hvars, cvars, fvars, ivars, gvars>>

\* The caller has seen what the sweep did
SweepReturns ==
    /\ sweep # NoSweep
    /\ sweep' = NoSweep
    /\ UNCHANGED <<pvars, evars, svars, hvars, cvars, fvars, ivars, gvars>>

----------------------------------------------------------------------------
(* Initialization, init callbacks, configuration and error reports *)

MaxInitCallbacks == 2
MaxPendingInit == 1

Null == "null"

\* The functions given to setInitCallback: each returns or throws
InitFns == {[id |-> id, throws |-> t] : id \in {"f", "g"}, t \in BOOLEAN}

\* HibikiConfig: the fields errorCallback and initHandler; a config argument
\* that is null or undefined
ErrorCallbacks == {"cb1", "cb2"}
HibikiConfig(errorCallback, initHandler) ==
    [defined |-> TRUE, errorCallback |-> errorCallback, initHandler |-> initHandler]
NoConfig == [defined |-> FALSE, errorCallback |-> Null, initHandler |-> Null]
ConfigArgs ==
    {NoConfig} \cup {HibikiConfig(e, h) : e \in ErrorCallbacks \cup {Null},
                                          h \in HandlerStrs \cup {Null}}

\* The error objects reported
ErrorObjs == {"err1", "err2"}

\* What an operation did: the init callbacks it invoked, in order, those whose
\* exception it logged, whether it threw to its caller, and where the error
\* reports it made were delivered
InitOp(op, invoked, logged, thrown, delivered) ==
    [op |-> op, invoked |-> invoked, logged |-> logged,
     thrown |-> thrown, delivered |-> delivered]
NoInitCall == InitOp("none", <<>>, <<>>, FALSE, <<>>)

\* Mutant of ReportErrorObj: the report goes to the log and to the callback
ReportErrorObj_Both(callback, errorObj) ==
    IF callback = Null
    THEN <<[to |-> "console.log", callback |-> Null, error |-> errorObj]>>
    ELSE <<[to |-> "console.log", callback |-> Null, error |-> errorObj],
           [to |-> "ErrorCallback", callback |-> callback, error |-> errorObj]>>

\* reportErrorObj(errorObj) with this.ErrorCallback = callback: the
\* deliveries it makes
ReportErrorObj(callback, errorObj) ==
    IF callback = Null
    THEN <<[to |-> "console.log", callback |-> Null, error |-> errorObj]>>
    ELSE <<[to |-> "ErrorCallback", callback |-> callback, error |-> errorObj]>>

\* Mutant of RunInitCallbacks: the loop has no try/catch, the first callback
\* that throws ends it
RECURSIVE RunInitCallbacks_NoCatch(_)
RunInitCallbacks_NoCatch(fns) ==
    IF fns = <<>> THEN <<>>
    ELSE IF Head(fns).throws THEN <<Head(fns)>>
    ELSE <<Head(fns)>> \o RunInitCallbacks_NoCatch(Tail(fns))

\* The loop of setInitialized: every callback is called inside try/catch, so
\* the callbacks called are all of them, in the order of the list
RECURSIVE RunInitCallbacks(_)
RunInitCallbacks(fns) ==
    IF fns = <<>> THEN <<>>
    ELSE <<Head(fns)>> \o RunInitCallbacks(Tail(fns))

\* setInitialized(), called by op: Initialized.set(true), then the loop; an
\* exception of a callback is logged
SetInitialized(op) ==
    /\ Initialized' = TRUE
    /\ LET invoked == RunInitCallbacks(InitCallbacks) IN
        initCall' = InitOp(op, invoked,
                           SelectSeq(invoked, LAMBDA fn : fn.throws), FALSE, <<>>)
    /\ UNCHANGED InitCallbacks

\* setInitCallback(fn) with Initialized = initialized and InitCallbacks = fns
SetInitCallback(initialized, fns, fn) ==
    IF initialized
    THEN [InitCallbacks |-> fns, invoked |-> <<fn>>, thrown |-> fn.throws]
    ELSE [InitCallbacks |-> Append(fns, fn), invoked |-> <<>>, thrown |-> FALSE]

setInitCallback ==
    /\ initCall = NoInitCall
    /\ Initialized \/ Len(InitCallbacks) < MaxInitCallbacks
    /\ \E fn \in InitFns :
        LET r == SetInitCallback(Initialized, InitCallbacks, fn) IN
        /\ InitCallbacks' = r.InitCallbacks
        /\ initCall' = InitOp("setInitCallback", r.invoked, <<>>, r.thrown, <<>>)
    /\ UNCHANGED <<Initialized, Config, ErrorCallback, pendingInit>>
    /\ UNCHANGED <<pvars, evars, svars, hvars, cvars, fvars, wvars, gvars>>

setInitialized ==
    /\ initCall = NoInitCall
    /\ SetInitialized("setInitialized")
    /\ UNCHANGED <<Config, ErrorCallback, pendingInit>>
    /\ UNCHANGED <<pvars, evars, svars, hvars, cvars, fvars, wvars, gvars>>

\* initialize(force): without an init handler, or when forced, the state is
\* initialized at once; otherwise the "init" event is fired with throwErrors,
\* and the state is initialized when its promise resolves
initialize ==
    /\ initCall = NoInitCall
    /\ \E force \in BOOLEAN :
        IF force \/ Config.initHandler = Null
        THEN /\ SetInitialized("initialize")
             /\ UNCHANGED pendingInit
        ELSE LET c == ExecuteHandler(Config.initHandler, TRUE) IN
             /\ ~c.thrown => Len(pendingInit) < MaxPendingInit
             /\ pendingInit' = IF c.thrown THEN pendingInit
                               ELSE Append(pendingInit, c.promise)
             /\ initCall' = InitOp("initialize", <<>>, <<>>, c.thrown, <<>>)
             /\ UNCHANGED <<Initialized, InitCallbacks>>
    /\ UNCHANGED <<Config, ErrorCallback>>
    /\ UNCHANGED <<pvars, evars, svars, hvars, cvars, fvars, wvars, gvars>>

\* The promise of the init handler settles: p.then(() => setInitialized())
\* .catch((e) => reportErrorObj(...))
InitHandlerSettles ==
    /\ initCall = NoInitCall
    /\ pendingInit # <<>>
    /\ IF Head(pendingInit) = "resolved"
       THEN SetInitialized("initHandler")
       ELSE /\ initCall' = InitOp("initHandler", <<>>, <<>>, FALSE,
                                  ReportErrorObj(ErrorCallback, "init failed"))
            /\ UNCHANGED <<Initialized, InitCallbacks>>
    /\ pendingInit' = Tail(pendingInit)
    /\ UNCHANGED <<Config, ErrorCallback>>
    /\ UNCHANGED <<pvars, evars, svars, hvars, cvars, fvars, wvars, gvars>>

\* if (config.errorCallback != null) this.ErrorCallback = config.errorCallback
SetConfigCallback(callback, config) ==
    IF config.errorCallback # Null THEN config.errorCallback ELSE callback

\* setConfig(config): config = config ?? {}; this.Config = config
setConfig ==
    /\ initCall = NoInitCall
    /\ \E arg \in ConfigArgs :
        LET config == IF arg.defined THEN arg ELSE HibikiConfig(Null, Null) IN
        /\ Config' = config
        /\ ErrorCallback' = SetConfigCallback(ErrorCallback, config)
        /\ initCall' = InitOp("setConfig", <<>>, <<>>, FALSE, <<>>)
    /\ UNCHANGED <<Initialized, InitCallbacks, pendingInit>>
    /\ UNCHANGED <<pvars, evars, svars, hvars, cvars, fvars, wvars, gvars>>

\* reportErrorObj(errorObj), and reportError(errorMessage, rtctx) which builds
\* the error object and calls it
reportErrorObj ==
    /\ initCall = NoInitCall
    /\ \E errorObj \in ErrorObjs :
        initCall' = InitOp("reportErrorObj", <<>>, <<>>, FALSE,
                           ReportErrorObj(ErrorCallback, errorObj))
    /\ UNCHANGED <<Initialized, InitCallbacks, Config, ErrorCallback, pendingInit>>
    /\ UNCHANGED <<pvars, evars, svars, hvars, cvars, fvars, wvars, gvars>>

\* The caller has seen what the operation did
InitReturns ==
    /\ initCall # NoInitCall
    /\ initCall' = NoInitCall
    /\ UNCHANGED <<Initialized, InitCallbacks, Config, ErrorCallback, pendingInit>>
    /\ UNCHANGED <<pvars, evars, svars, hvars, cvars, fvars, wvars, gvars>>

----------------------------------------------------------------------------
(* Reference definitions for the pipeline claims *)

\* The action is a direct write of a root path
IsRootWrite(rr) ==
    /\ rr.entry = "object"
    /\ rr.type = "setdata"
    /\ Selector(rr) \in RootPaths

\* The action is a return-value capture: assign, blob or blob-extend on "@rtn"
IsRtnAction(rr) ==
    /\ rr.entry = "object"
    /\ rr.type \in {"setdata", "blob", "blobext"}
    /\ Selector(rr) = RtnSelector

\* The root data with exactly the writes of positions 1..n of the batch applied
RECURSIVE WritesApplied(_, _, _)
WritesApplied(root, batch, n) ==
    IF n = 0 THEN root
    ELSE LET r == WritesApplied(root, batch, n - 1)
         IN IF IsRootWrite(batch[n])
            THEN [r EXCEPT ![Selector(batch[n])] = batch[n].data]
            ELSE r

\* The root data after the first n actions of a call in either mode
RootAfter(root, batch, n, pure) ==
    IF pure THEN root ELSE WritesApplied(root, batch, n)

\* The position of the last assign or blob on "@rtn" in the batch, 0 if none
LastCapture(batch) ==
    LET at == {i \in 1..Len(batch) :
                 IsRtnAction(batch[i]) /\ batch[i].type \in {"setdata", "blob"}}
    IN IF at = {} THEN 0 ELSE CHOOSE i \in at : \A j \in at : j <= i

\* The data of the blob-extend actions on "@rtn" of the batch after position n
RECURSIVE ExtensionsAfter(_, _)
ExtensionsAfter(batch, n) ==
    IF n >= Len(batch) THEN <<>>
    ELSE LET rr == batch[n + 1]
         IN (IF IsRtnAction(rr) /\ rr.type = "blobext" THEN <<rr.data>> ELSE <<>>)
            \o ExtensionsAfter(batch, n + 1)

\* The return value the batch captures: the last assign or blob on "@rtn" wins,
\* and a blob is extended by the blob-extends that follow it
CapturedReturn(batch) ==
    LET j == LastCapture(batch)
    IN IF j = 0 THEN NullRtn
       ELSE IF batch[j].type = "setdata" THEN ValueRtn(batch[j].data)
       ELSE [kind |-> "blob", val |-> <<batch[j].data>> \o ExtensionsAfter(batch, j)]

\* The call is over, normally or by an exception
CallEnded == pstatus \in {"returned", "threw"}

\* The actions of the call that were processed completely
Processed == SubSeq(rra, 1, idx - 1)

\* Some registered entry has the query "q"
RegisteredQ == \E k \in 1..Len(DataNodeStates) : DataNodeStates[k].query = "q"

----------------------------------------------------------------------------
(* Claims about the pipeline *)

\* C1: processActions applies a batch in list order: every forceRefresh
\* callback triggered by the invalidate action at position i reads root data
\* with exactly the writes of the positions before i applied, none of the later
\* ones, and the callbacks are made in the order of the positions.
C1_ListOrder ==
    \A k \in 1..Len(refreshLog) :
        LET e == refreshLog[k] IN
        /\ e.pos \in 1..Len(rra)
        /\ rra[e.pos].type = "invalidate"
        /\ e.root = WritesApplied(rootBefore, rra, e.pos - 1)
        /\ k > 1 => refreshLog[k - 1].pos <= e.pos

\* A callback ran between two writes: it read a root that is neither the one
\* before the call nor the one after it
C1_Witness ==
    /\ pstatus = "returned"
    /\ \E k \in 1..Len(refreshLog) :
        /\ refreshLog[k].root # rootBefore
        /\ refreshLog[k].root # DataRoots

\* The batch of the ordering example: [assign(a,1), invalidate(q), assign(a,2)]
OrderingBatch == <<SetA1, InvalidateQ, SetA2>>

\* C2 (as stated): in runActions([assign(a,1), invalidate(q), assign(a,2)]) the
\* refresh callback of a query registered against q reads a == 2.
C2_ObservesTwo ==
    (rra = OrderingBatch /\ ~pureRequest /\ pstatus = "returned") =>
        \A k \in 1..Len(refreshLog) : refreshLog[k].root["a"] = 2

\* C2 (amended): in that batch every entry registered against q is refreshed
\* once, and its callback reads a == 1, the write before the invalidate action;
\* a is 2 only after the call.
C2_ObservesOne ==
    (rra = OrderingBatch /\ ~pureRequest /\ pstatus = "returned") =>
        /\ \A k \in 1..Len(refreshLog) : refreshLog[k].root["a"] = 1
        /\ \A n \in 1..Len(DataNodeStates) :
              DataNodeStates[n].query = "q" =>
                  Cardinality({k \in 1..Len(refreshLog) :
                      refreshLog[k].uuid = DataNodeStates[n].uuid}) = 1
        /\ DataRoots["a"] = 2

C2_Witness ==
    /\ rra = OrderingBatch /\ ~pureRequest /\ pstatus = "returned"
    /\ RegisteredQ
    /\ refreshLog # <<>>

\* C3: in capture-only mode processActions has no side effect, whichever the
\* batch: no forceRefresh is called, the node tree and the root data are as
\* before the call, and a call that returns returns the captured value.
C3_CaptureOnly ==
    (pureRequest /\ CallEnded) =>
        /\ refreshLog = <<>>
        /\ HtmlObj = htmlBefore
        /\ DataRoots = rootBefore
        /\ pstatus = "returned" => rtnval = CapturedReturn(rra)

\* A capture-only call of a batch with a capture, an invalidate action that
\* matches a registered query, and a root write or a replace-document action
C3_Witness ==
    /\ pureRequest /\ pstatus = "returned"
    /\ rtnval.kind = "value"
    /\ \E i \in 1..Len(rra) :
        /\ rra[i].type = "invalidate"
        /\ MatchingEntries(DataNodeStates, Selector(rra[i])) # <<>>
    /\ \E i \in 1..Len(rra) : IsRootWrite(rra[i]) \/ rra[i].type = "html"

\* C4: the return value is one accumulator seeded to null: the last assign or
\* blob on "@rtn" wins, a blob-extend on "@rtn" extends the blob and is skipped
\* when the accumulator is no blob; no action on "@rtn" throws, and in either
\* mode the actions on "@rtn" write no root state: a batch made of them changes
\* nothing, and any batch leaves the root data its other actions leave.
C4_Accumulator ==
    CallEnded =>
        /\ rtnval = CapturedReturn(Processed)
        /\ pstatus = "threw" => ~IsRtnAction(rra[idx])
        /\ (\A i \in 1..Len(rra) : IsRtnAction(rra[i])) =>
              /\ pstatus = "returned"
              /\ DataRoots = rootBefore
              /\ HtmlObj = htmlBefore
              /\ refreshLog = <<>>
        /\ LET others == SelectSeq(Processed, LAMBDA rr : ~IsRtnAction(rr))
           IN DataRoots = RootAfter(rootBefore, others, Len(others), pureRequest)

\* Two assigns on "@rtn" and then a blob-extend with no blob to extend
C4_Witness ==
    /\ pstatus = "returned"
    /\ rra = <<SetRtn1, SetRtn2, BlobExtRtn>>
    /\ rtnval = ValueRtn(2)

\* C5 (as stated): a malformed action never aborts the batch: processActions
\* returns normally and every well-formed action of the batch is applied.
C5_MalformedSkipped ==
    /\ pstatus # "threw"
    /\ (pstatus = "returned") =>
          DataRoots = RootAfter(rootBefore, rra, Len(rra), pureRequest)

\* C6 (as stated): no observer reads root state with some but not all of the
\* batch applied: neither a forceRefresh callback called during the batch nor
\* the caller of a call that failed part-way.
C6_Atomic ==
    LET all == RootAfter(rootBefore, rra, Len(rra), pureRequest) IN
    /\ \A k \in 1..Len(refreshLog) : refreshLog[k].root \in {rootBefore, all}
    /\ pstatus = "threw" => DataRoots \in {rootBefore, all}

\* C6 (amended): only a caller that reads root state before the call or after
\* it returned normally sees none or all of the batch applied; the batch is
\* applied action by action with no rollback, so a forceRefresh callback at
\* position i and the caller of a call that failed at position i read the
\* root state with exactly the actions before i applied.
C6_AtomicForCaller ==
    /\ pstatus = "idle" => DataRoots = rootBefore
    /\ pstatus = "returned" =>
          DataRoots = RootAfter(rootBefore, rra, Len(rra), pureRequest)
    /\ pstatus = "threw" =>
          DataRoots = RootAfter(rootBefore, rra, idx - 1, pureRequest)
    /\ \A k \in 1..Len(refreshLog) :
          refreshLog[k].root =
              RootAfter(rootBefore, rra, refreshLog[k].pos - 1, pureRequest)

\* A call that returned after a callback read a partly applied batch
C6_Witness ==
    /\ pstatus = "returned" /\ ~pureRequest
    /\ DataRoots # rootBefore
    /\ \E k \in 1..Len(refreshLog) :
          refreshLog[k].root \notin {rootBefore, DataRoots}

----------------------------------------------------------------------------
(* Reference definitions for the event claims *)

\* The scopes from the scope at index i to the root, nearest first
RECURSIVE ScopeChain(_, _)
ScopeChain(es, i) ==
    IF i = 0 THEN <<>> ELSE <<i>> \o ScopeChain(es, es[i].parent)

\* The scope is a hard boundary, or a soft boundary that claims the event
ClaimsEvent(es, j, event) ==
    \/ es[j].eventBoundary = "hard"
    \/ /\ es[j].eventBoundary = "soft"
       /\ (event = "*" \/ event \in es[j].handlers)

\* The nearest scope, from the scope at index i upwards, that claims the
\* event; 0 when no scope up to the root does
NearestBoundary(es, i, event) ==
    LET chain == ScopeChain(es, i)
        hits == {k \in 1..Len(chain) : ClaimsEvent(es, chain[k], event)}
    IN IF hits = {} THEN 0
       ELSE chain[CHOOSE k \in hits : \A m \in hits : k <= m]

\* Where unhandledEvent is to report the fired event
ExpectedReport ==
    IF fired.event = "error" /\ fired.hasError THEN "reportErrorObj" ELSE "console.log"

\* The chain of the boundary example: root(hard) -> mid(soft, {click}) -> leaf(none)
ExampleChain ==
    /\ Len(envs) = 3
    /\ envs[1].parent = 0 /\ envs[1].eventBoundary = "hard"
    /\ envs[2].parent = 1 /\ envs[2].eventBoundary = "soft"
    /\ envs[2].handlers = {"click"}
    /\ envs[3].parent = 2 /\ envs[3].eventBoundary = "none"

\* The event was fired from the leaf of the example chain
FiredFromLeaf(event) ==
    ExampleChain /\ fired.from = 3 /\ fired.event = event

----------------------------------------------------------------------------
(* Claims about the event dispatch *)

C8_BoundaryExample ==
    /\ FiredFromLeaf("click") => outcome.handlerEnv = 2
    /\ (FiredFromLeaf("hover") /\ fired.bubble) => outcome.trail = <<1>>
    /\ (FiredFromLeaf("hover") /\ ~fired.bubble) =>
          /\ outcome.handlerEnv = 0
          /\ outcome.unhandled # "none"

\* C8 (amended): "click" from leaf is handled at mid; "hover" resolves past mid
\* to root with or without the bubble flag; there the handler root declares
\* for "hover" is executed, and when root declares none no handler is executed;
\* the event is not reported unhandled in either case, a boundary was found.
C8_BoundaryExampleAmended ==
    /\ FiredFromLeaf("click") =>
          /\ outcome.trail = <<2>>
          /\ outcome.handlerEnv = 2
    /\ FiredFromLeaf("hover") =>
          /\ outcome.trail = <<1>>
          /\ outcome.handlerEnv = IF "hover" \in envs[1].handlers THEN 1 ELSE 0
          /\ outcome.unhandled = "none"

\* "hover" fired without bubble from the leaf runs the handler root declares
C8_Witness ==
    /\ FiredFromLeaf("hover") /\ ~fired.bubble
    /\ "hover" \in envs[1].handlers
    /\ outcome.handlerEnv = 1

\* C9: when fireEvent, or the fireEvent it calls on a boundary's parent, finds
\* no boundary scope for the event, no handler is executed and the event goes
\* to unhandledEvent: an "error" event whose data context carries an error is
\* forwarded to reportErrorObj, any other event is only logged; and an event
\* is reported so in no other case.
C9_Unhandled ==
    fired # NoFire =>
        LET t == outcome.trail
            searchedFrom == IF t = <<>> THEN fired.from ELSE envs[t[Len(t)]].parent
        IN
        /\ NearestBoundary(envs, fired.from, fired.event) = 0 =>
              /\ t = <<>>
              /\ outcome.handlerEnv = 0
              /\ outcome.unhandled = ExpectedReport
        /\ outcome.unhandled # "none" =>
              /\ outcome.handlerEnv = 0
              /\ outcome.unhandled = ExpectedReport
              /\ NearestBoundary(envs, searchedFrom, fired.event) = 0

\* An "error" event with an error and no boundary above the firing scope
C9_Witness ==
    /\ Len(envs) >= 2 /\ fired.from = Len(envs)
    /\ fired.event = "error" /\ fired.hasError
    /\ outcome.trail = <<>>
    /\ outcome.unhandled = "reportErrorObj"

C11_ExemptNeverBubbles ==
    (fired # NoFire /\ ~EventBubbles(fired.event)) =>
        \/ outcome.trail = <<>>
        \/ /\ Len(outcome.trail) = 1
           /\ outcome.handlerEnv = 0

\* C12 (as stated): when fireEvent is called without throwErrors, it does not
\* throw and the promise it returns does not reject, whether the handler text
\* fails to parse or the block fails in execution; the failure is reported
\* through the error-reporting path.
C12_NoFailureReachesCaller ==
    (fired # NoFire /\ ~fired.throwErrors) =>
        /\ ~outcome.completion.thrown
        /\ outcome.completion.promise # "rejected"
        /\ fired.handlerStr # "ok" => outcome.completion.reported

\* C13 (as stated): when fireEvent is called with throwErrors and the
\* execution of the handler fails, the returned promise rejects, whichever
\* boundary scope handled the event, also one reached after bubbling.
C13_ThrowReachesCaller ==
    (/\ fired # NoFire
     /\ fired.throwErrors
     /\ fired.handlerStr = "execFails"
     /\ outcome.handlerEnv # 0) =>
        outcome.completion.promise = "rejected"
----------------------------------------------------------------------------
(* Reference definitions for the scope claims *)

\* The specials, at the time of the pending call, of the scopes from the
\* scope at index i to the root, nearest first
SpecialsChain(i) ==
    LET chain == ScopeChain(scopes, i)
    IN [k \in 1..Len(chain) |-> result.before[chain[k]]]

\* The position in a chain of specials of the nearest one that binds the key;
\* 0 when none does
NearestBinding(specs, key) ==
    LET hits == {k \in 1..Len(specs) : key \in DOMAIN specs[k]}
    IN IF hits = {} THEN 0 ELSE CHOOSE k \in hits : \A m \in hits : k <= m

\* The flat mapping of a chain of specials: every key bound somewhere, with
\* the value of the nearest binding
Flattened(specs) ==
    [key \in UNION {DOMAIN specs[k] : k \in 1..Len(specs)} |->
        specs[NearestBinding(specs, key)][key]]

\* The local data of the scopes from the scope at index i to the root,
\* nearest first, without the onlySpecials scopes
LocalFrames(i) ==
    LET chain == ScopeChain(scopes, i)
        IsFrame(j) == ~scopes[j].onlySpecials
        kept == SelectSeq(chain, IsFrame)
    IN [k \in 1..Len(kept) |-> scopes[kept[k]].data]

\* The scopes root -> A -> B -> C of the example, with specials {}, {x:1, y:2},
\* {} and {x:3}, and their mapping objects
ExampleHeap ==
    <<EmptyObj, [k \in {"x", "y"} |-> IF k = "x" THEN 1 ELSE 2], EmptyObj, [k \in {"x"} |-> 3]>>
ExampleScopes ==
    <<Scope(0, 0, FALSE, 1, 0), Scope(1, 1, FALSE, 2, 0), Scope(2, 1, FALSE, 3, 0),
      Scope(3, 1, FALSE, 4, 0)>>

\* The names resolveRoot knows without looking into DataRoots
WellKnownRoots ==
    {"global", "data", "state", "local", "null", "nodedata", "context",
     "currentcontext", "localstack", "contextstack", "c", "component"}

----------------------------------------------------------------------------
(* Claims about scopes *)

\* C14 (as stated): getContextKey(key) returns the specials[key] of the
\* nearest scope, current scope first, that defines the key, and null when
\* no scope up to the root defines it.
C14_ShadowLookup ==
    result.op = "getContextKey" =>
        LET specs == SpecialsChain(result.scope)
            k == NearestBinding(specs, result.name)
        IN IF k = 0 THEN result.out = ReturnsNullValue
           ELSE result.out = ReturnsNumber(specs[k][result.name])

\* C15: getSquashedContext() returns one flat mapping with every key bound in
\* a scope from the root to the current scope, each with the value of the
\* nearest scope; for specials {x:1, y:2}, {}, {x:3} root to leaf it is
\* {x:3, y:2}; the mapping is a new object, and writing to it changes the
\* specials of no scope.
C15_SquashedContext ==
    /\ GetSquashedContext(ExampleScopes, ExampleHeap, 4)
          = [k \in {"x", "y"} |-> IF k = "x" THEN 3 ELSE 2]
    /\ result.op = "getSquashedContext" =>
          /\ result.out.map = Flattened(SpecialsChain(result.scope))
          /\ \A j \in 1..Len(scopes) :
                /\ result.out.refs[1] # scopes[j].specials
                /\ result.out.refs[1] # scopes[j].arg
                /\ heap[scopes[j].specials] = result.before[j]

\* The caller wrote to the mapping it got from the innermost of three scopes,
\* in which the nearest binding of a key shadowed another value
C15_Witness ==
    /\ result.op = "getSquashedContext" /\ result.scope = 3
    /\ heap[result.out.refs[1]] # result.out.map
    /\ \E j \in 1..2, key \in DOMAIN result.out.map :
          /\ key \in DOMAIN heap[scopes[3].specials]
          /\ key \in DOMAIN heap[scopes[j].specials]
          /\ heap[scopes[j].specials][key] # result.out.map[key]

\* C16: makeChildEnv gives the child its own copy of the mapping it is given:
\* a step that writes to the specials of a scope leaves the specials of its
\* parent and the mapping its maker was given as they were.
C16_ChildCopy ==
    [][\A i \in 1..Len(scopes) :
          heap'[scopes[i].specials] # heap[scopes[i].specials] =>
              /\ scopes[i].parent # 0 =>
                    heap'[scopes[scopes[i].parent].specials]
                        = heap[scopes[scopes[i].parent].specials]
              /\ scopes[i].arg # 0 => heap'[scopes[i].arg] = heap[scopes[i].arg]]_vars

\* A child that was given a mapping of its caller and one that was given its
\* parent's specials, both written to afterwards
C16_Witness ==
    /\ Len(scopes) = 3
    /\ scopes[2].arg \notin {0, scopes[1].specials}
    /\ heap[scopes[2].specials] # heap[scopes[2].arg]
    /\ scopes[3].arg = scopes[2].specials
    /\ heap[scopes[3].specials] # heap[scopes[3].arg]

\* C17: getLocalStack() returns the local data of the scopes from the current
\* one to the root, nearest first, with exactly the onlySpecials scopes left
\* out, so that a scope made by makeSpecialChildEnv has the local stack of its
\* parent; getContextStack() returns the specials of every scope of the
\* chain, nearest first.
C17_Stacks ==
    /\ result.op = "getLocalStack" => result.out.nums = LocalFrames(result.scope)
    /\ \A j \in 1..Len(scopes) :
          (scopes[j].onlySpecials /\ scopes[j].parent # 0) =>
              GetLocalStack(scopes, j) = GetLocalStack(scopes, scopes[j].parent)
    /\ result.op = "getContextStack" =>
          LET chain == ScopeChain(scopes, result.scope) IN
          result.out.refs = [k \in 1..Len(chain) |-> scopes[chain[k]].specials]

\* The local stack of a scope made by makeSpecialChildEnv on a child of the root
C17_Witness ==
    /\ result.op = "getLocalStack" /\ result.scope = 3
    /\ scopes[3].onlySpecials /\ ~scopes[2].onlySpecials
    /\ result.out.nums = <<scopes[2].data, 0>>

\* C18 (as stated): resolveRoot fails with InvalidCaret for every caret
\* outside {0, 1}, and with InvalidRoot for every name that is neither a
\* well-known root nor a root registered in DataRoots; "local" with caret 1
\* gives the second entry of the local stack, or null when there is none;
\* "context" and "currentcontext" with caret 1 give null for a scope without
\* parent.
C18_ResolveRoot ==
    result.op = "resolveRoot" =>
        LET badCaret == result.hasCaret /\ result.caret \notin {0, 1}
            caretOne == result.hasCaret /\ result.caret = 1
            frames == LocalFrames(result.scope)
        IN
        /\ badCaret => result.out.thrown = "Invalid caret value, must be 0 or 1"
        /\ (~badCaret /\ result.name \notin WellKnownRoots \cup DataRootNames) =>
              result.out.thrown = "Invalid root path"
        /\ (caretOne /\ result.name = "local") =>
              IF Len(frames) < 2 \/ frames[2] = 0
              THEN result.out = ReturnsNullValue
              ELSE result.out = ReturnsNumber(frames[2])
        /\ (/\ caretOne
            /\ result.name \in {"context", "currentcontext"}
            /\ scopes[result.scope].parent = 0) =>
              result.out = ReturnsNullValue

----------------------------------------------------------------------------
(* Reference definitions for the handler path claims *)

\* The first position from a on at which s has a character outside the
\* class; Len(s) + 1 when there is none
FirstOutside(s, a, class) ==
    LET outs == {k \in a..Len(s) : s[k] \notin class}
    IN IF outs = {} THEN Len(s) + 1 ELSE CHOOSE k \in outs : \A m \in outs : k <= m

\* A handler path read from left to right: after the leading slash an
\* optional @namespace, then an optional path of segments, then an optional
\* :fragment. ok tells whether s is a path of the grammar.
ReadPath(s) ==
    LET hasNs == Len(s) >= 2 /\ s[2] = "@"
        nsEnd == IF hasNs THEN FirstOutside(s, 3, NsChars) - 1 ELSE 0
        ns == SubSeq(s, 3, nsEnd)
        colon == FirstOutside(s, nsEnd + 1, PathBodyChars)
        path == SubSeq(s, nsEnd + 1, colon - 1)
        frag == SubSeq(s, colon + 1, Len(s))
        name == IF frag # <<>> /\ frag[1] = "@" THEN SubSeq(frag, 2, Len(frag)) ELSE frag
    IN [ok |-> /\ s # <<>> /\ s[1] = "/"
               /\ hasNs => (ns # <<>> /\ ns[1] \in NsStartChars)
               /\ path # <<>> => path[1] = "/"
               /\ colon <= Len(s) =>
                     /\ s[colon] = ":"
                     /\ name # <<>>
                     /\ name[1] \in FragStartChars
                     /\ AllIn(name, 2, Len(name), FragChars),
        ns |-> ns,
        path |-> IF path = <<>> THEN <<"/">> ELSE path,
        pathfrag |-> frag]

\* "/@fetch/users:GET"
ExamplePath ==
    <<"/", "@", "f", "e", "t", "c", "h", "/", "u", "s", "e", "r", "s", ":", "G", "E", "T">>

\* What parseHandler returns for the example
ExampleParsed == ParseHandler(Str(ExamplePath))

----------------------------------------------------------------------------
(* Claims about handler paths *)

\* C19: parseHandler accepts exactly the paths of the grammar
\* /@namespace/segment/segment:fragment, every part optional but the leading
\* slash, and returns their namespace, path and fragment ("/@fetch/users:GET"
\* gives "fetch", "/users" and "GET"); a null path, the empty string, a path
\* without the leading slash and a path outside the grammar fail with the
\* invalid handler path error, which callHandler reports.
C19_ParseHandler ==
    /\ ExampleParsed
          = HandlerPathObj(FetchName, <<"/", "u", "s", "e", "r", "s">>, <<"G", "E", "T">>)
    /\ handlerCall # NoHandlerCall =>
          LET p == handlerCall.handlerPath
              read == ReadPath(p.chars)
          IN IF p.defined /\ read.ok
             THEN /\ handlerCall.hpath
                        = HandlerPathObj(read.ns, read.path, read.pathfrag)
                  /\ handlerCall.thrown
                        \notin {"Invalid handler path", "Invalid handler path: "}
             ELSE /\ ParseHandler(p) = NullPath
                  /\ handlerCall.thrown
                        \in {"Invalid handler path", "Invalid handler path: "}
                  /\ handlerCall.invoked = <<>>

\* A path with namespace, path and fragment was parsed and its module invoked
C19_Witness ==
    /\ handlerCall.handlerPath = Str(<<"/", "@", "a", "/", "a", ":", "a">>)
    /\ handlerCall.hpath = HandlerPathObj(<<"a">>, <<"/", "a">>, <<"a">>)
    /\ handlerCall.invoked = <<"a">>

\* C20 (as stated): callHandler on a handler path without /@namespace part
\* invokes the module registered under the name "default", when one is
\* registered.
C20_DefaultModule ==
    (/\ handlerCall # NoHandlerCall
     /\ ~handlerCall.hpath.isNull
     /\ handlerCall.hpath.ns = <<>>
     /\ DefaultName \in Modules) =>
        handlerCall.invoked = DefaultName

----------------------------------------------------------------------------
(* Reference definitions for the claims on handler calls *)

\* The namespace written in the path of the call
WrittenNamespace(call) == ReadPath(call.hc.handlerPath.chars).ns

\* The call failed: in its synchronous part, in the module, or in the pipeline
CallFailed(call) ==
    \/ ~call.settle.settled
    \/ call.settle.rejected
    \/ call.pstatus = "threw"

\* The module's result is a record with an array-valued actions field
HasActionArray(data) == data.type = "object" /\ data.hasField /\ data.isArray

\* A step in which the module of a call in flight is fulfilled
SettleStep ==
    /\ lastCall = NoCall
    /\ lastCall' # NoCall
    /\ lastCall'.settle.settled
    /\ ~lastCall'.settle.rejected

----------------------------------------------------------------------------
(* Claims on handler calls (GatewaySpec) *)

C22_ResultToPipeline ==
    [][SettleStep =>
        LET call == lastCall'
            data == call.settle.data
            batch == data.hibikiactions
            pure == call.entry = "callData"
        IN /\ call.fed <=> HasActionArray(data)
           /\ call.fed =>
                /\ DataRoots' = RootAfter(DataRoots, batch, call.idx - 1, pure)
                /\ pure => (DataRoots' = DataRoots /\ HtmlObj' = HtmlObj
                                /\ call.refreshLog = <<>>)
                /\ call.pstatus = "returned" =>
                     /\ call.idx = Len(batch) + 1
                     /\ call.promise = Resolved(RtnValue(CapturedReturn(batch)))
           /\ ~call.fed =>
                /\ call.promise = Resolved(DataValue(data))
                /\ DataRoots' = DataRoots
                /\ HtmlObj' = HtmlObj
           /\ DataNodeStates' = DataNodeStates]_vars

\* C22 witness: a callData call resolved to the value 1 that its batch
\* captured, and left alone the root data an earlier callHandler call wrote
C22_Witness ==
    /\ lastCall.fed
    /\ lastCall.entry = "callData"
    /\ lastCall.settle.data = ActionsData(<<SetA2, SetRtn1>>)
    /\ lastCall.promise = Resolved(RtnValue(ValueRtn(1)))
    /\ DataRoots["a"] = 1

\* C23: the promise of callHandler and callData never rejects, with or
\* without opts, and a failed call makes exactly one error report, with the
\* handler path and the runtime context of opts
C23_NeverRejects ==
    lastCall # NoCall =>
        /\ lastCall.promise.state = "resolved"
        /\ CallFailed(lastCall) =>
             /\ Len(lastCall.reports) = 1
             /\ lastCall.reports[1].handlerPath = lastCall.hc.handlerPath
             /\ lastCall.reports[1].rtContext = lastCall.opts.rtContext
        /\ ~CallFailed(lastCall) => lastCall.reports = <<>>

\* C24: the request record a module receives carries the runtime context of
\* the caller's opts, the resolved path parts, the argument list, the
\* capability handle and a pure flag that is true exactly for callData
C24_RequestRecord ==
    \A i \in 1..Len(inflight) :
        LET call == inflight[i]
            parsed == ReadPath(call.hc.handlerPath.chars)
        IN /\ call.req.rtContext = call.opts.rtContext
           /\ call.req.path = [module |-> call.hc.moduleName, path |-> parsed.path,
                               pathfrag |-> parsed.pathfrag]
           /\ call.req.data = HandlerData
           /\ call.req.state = "HibikiExtState"
           /\ call.req.pure = (call.entry = "callData")

\* C30: with several calls in flight, the module result that settles is
\* applied at once and as a whole, on the root data as the batches applied
\* before it left them: in the order of settling, whichever call was invoked
\* first, and also when calls invoked later have settled before; every other
\* call stays in flight with the request it was invoked with
C30_BatchesNotInterleaved ==
    [][(SettleStep /\ HasActionArray(lastCall'.settle.data)) =>
        LET call == lastCall'
            batch == call.settle.data.hibikiactions
            pure == call.entry = "callData"
        IN /\ \E i \in 1..Len(inflight) :
                /\ call.req = inflight[i].req
                /\ call.earlierPending = (i > 1)
                /\ call.overtaken = inflight[i].overtaken
                /\ Len(inflight') = Len(inflight) - 1
                /\ \A k \in 1..Len(inflight') :
                     inflight'[k].req = inflight[IF k < i THEN k ELSE k + 1].req
           /\ DataRoots' = RootAfter(DataRoots, batch, call.idx - 1, pure)
           /\ call.pstatus = "returned" => call.idx = Len(batch) + 1]_vars

\* C30 witness: the batch of a call that was overtaken by a call invoked
\* after it is applied as a whole, on the root data the other batch left
C30_Witness ==
    /\ lastCall.fed
    /\ lastCall.overtaken
    /\ lastCall.entry = "callHandler"
    /\ lastCall.settle.data = ActionsData(<<SetA1, SetA2>>)
    /\ lastCall.pstatus = "returned"
    /\ DataRoots["a"] = 2

----------------------------------------------------------------------------
(* Claims on the fetch module (FetchSpec) *)

\* The same word in upper case, spelled out for the letters of the verbs
VerbSpellings(frag) ==
    {v \in VALID_METHODS :
        /\ Len(v) = Len(frag)
        /\ \A k \in 1..Len(v) :
              \E j \in 1..26 : UpperCase[j] = v[k] /\ frag[k] \in {UpperCase[j], LowerCase[j]}}

\* C25: the fetch module accepts a method written in any letter case exactly
\* when its upper-cased form is one of GET, POST, PUT, PATCH, DELETE, and a
\* request it issues has the upper-cased method; any other method, a missing
\* fragment included, fails with the invalid-method error before the URL or
\* the parameters are examined and without a request
C25_FetchMethod ==
    fetchCall # NoFetchCall =>
        LET frag == fetchCall.pathfrag
            verbs == IF frag.defined THEN VerbSpellings(frag.chars) ELSE {}
        IN /\ verbs # {} <=> fetchCall.thrown \notin {"Invalid method", "Invalid null method"}
           /\ fetchCall.request.issued =>
                /\ verbs = {fetchCall.request.method}
                /\ fetchCall.thrown = ""
           /\ verbs = {} =>
                /\ fetchCall.examined = {}
                /\ ~fetchCall.request.issued
                /\ fetchCall.promise = "none"

\* C25 witness: a request issued with method GET for the fragment "gEt"
C25_Witness ==
    /\ fetchCall.pathfrag = Str(<<"g", "E", "t">>)
    /\ fetchCall.request.issued
    /\ fetchCall.request.method = <<"G", "E", "T">>

----------------------------------------------------------------------------
(* Claims on invalidation sweeps (SweepSpec) *)

\* The pattern occurs in the query (an undefined pattern is the empty one)
HasSubstring(query, pattern) ==
    \/ pattern = Undefined
    \/ \E i \in 1..(Len(Chars(query)) + 1), j \in 0..Len(Chars(query)) :
          SubSeq(Chars(query), i, j) = Chars(pattern)

\* The entries a sweep selects
Selected(nodes, op, arg) ==
    {k \in 1..Len(nodes) :
        CASE op = "invalidate" -> nodes[k].query = arg
          [] op = "invalidateRegex" -> HasSubstring(nodes[k].query, arg)
          [] OTHER -> TRUE}

\* The sweep called forceRefresh of exactly the selected entries, each once
RefreshedSelected(nodes, sw) ==
    /\ Len(sw.called) = Cardinality(Selected(nodes, sw.op, sw.arg))
    /\ \A k \in Selected(nodes, sw.op, sw.arg) :
          Cardinality({c \in 1..Len(sw.called) : sw.called[c] = nodes[k]}) = 1

\* C26: a sweep that runs to its end calls forceRefresh of exactly the
\* selected entries, each once: invalidate(query) those whose query equals
\* query, invalidateRegex(pattern) those whose query matches the pattern,
\* invalidateAll() all of them; no sweep adds or removes a registry entry
C26_SweepSelection ==
    [][(sweep = NoSweep /\ sweep' # NoSweep) =>
          /\ DataNodeStates' = DataNodeStates
          /\ ~sweep'.threw => RefreshedSelected(DataNodeStates, sweep')]_vars

\* C26 witness: invalidate("q") on three entries with the queries q, qr and q
\* refreshed the first and the third
C26_Witness ==
    /\ sweep.op = "invalidate"
    /\ sweep.arg = "q"
    /\ ~sweep.threw
    /\ Len(DataNodeStates) = 3
    /\ DataNodeStates[2].query = "qr"
    /\ sweep.called = <<DataNodeStates[1], DataNodeStates[3]>>

\* C27: a refresh callback that fails during a sweep does not abort it: every
\* entry the sweep selects is still refreshed (the pattern compiles)
C27_FailureDoesNotAbort ==
    (sweep # NoSweep /\ ~(sweep.op = "invalidateRegex" /\ RegExpThrows(sweep.arg))) =>
        RefreshedSelected(DataNodeStates, sweep)

----------------------------------------------------------------------------
(* Claims on initialization and error reports (InitSpec) *)

\* The step completes the initialization
InitCompletes == ~Initialized /\ Initialized'

\* The step makes an error report
ReportStep ==
    /\ initCall = NoInitCall
    /\ \/ initCall'.op = "reportErrorObj"
       \/ initCall'.op = "initHandler" /\ Head(pendingInit) = "rejected"

\* C28: setInitCallback(fn) on an initialized state invokes fn in the call
\* and does not queue it; before that it queues fn at the end of the list and
\* does not invoke it; the step that completes the initialization invokes
\* every queued function, in registration order, those after one that throws
\* included
C28_InitCallbacks ==
    [][/\ (initCall = NoInitCall /\ initCall'.op = "setInitCallback") =>
            IF Initialized
            THEN /\ Len(initCall'.invoked) = 1
                 /\ InitCallbacks' = InitCallbacks
            ELSE /\ initCall'.invoked = <<>>
                 /\ Len(InitCallbacks') = Len(InitCallbacks) + 1
                 /\ SubSeq(InitCallbacks', 1, Len(InitCallbacks)) = InitCallbacks
                 /\ ~Initialized'
       /\ InitCompletes =>
            /\ initCall'.invoked = InitCallbacks
            /\ InitCallbacks' = InitCallbacks]_vars

\* C28 witness: the init handler resolved and completed the initialization;
\* two functions were queued, the first throws, and both were invoked in order
C28_Witness ==
    /\ initCall.op = "initHandler"
    /\ Initialized
    /\ Len(InitCallbacks) = 2
    /\ InitCallbacks[1].throws
    /\ ~InitCallbacks[2].throws
    /\ InitCallbacks[1].id # InitCallbacks[2].id
    /\ initCall.invoked = InitCallbacks

\* C29: an error report is delivered to exactly one place, the registered
\* error callback when there is one and the diagnostic log otherwise; setConfig
\* with a config without callback leaves the registered callback in place, and
\* with a callback registers it
C29_ErrorDelivery ==
    [][/\ ReportStep =>
            /\ Len(initCall'.delivered) = 1
            /\ ErrorCallback # Null =>
                  /\ initCall'.delivered[1].to = "ErrorCallback"
                  /\ initCall'.delivered[1].callback = ErrorCallback
            /\ ErrorCallback = Null => initCall'.delivered[1].to = "console.log"
       /\ (initCall = NoInitCall /\ initCall'.op = "setConfig") =>
            ErrorCallback' = IF Config'.errorCallback = Null
                             THEN ErrorCallback ELSE Config'.errorCallback]_vars

\* C29 witness: a report delivered to the callback cb1, which an earlier
\* config registered, while the current config has no callback
C29_Witness ==
    /\ initCall.op = "reportErrorObj"
    /\ Config.errorCallback = Null
    /\ ErrorCallback = "cb1"
    /\ initCall.delivered = <<[to |-> "ErrorCallback", callback |-> "cb1", error |-> "err1"]>>

----------------------------------------------------------------------------
(* The capability handle (HibikiExtState), setGlobalData and the script queue *)

\* Bound on the length of PostScriptRunQueue
MaxPostScript == 2

\* The functions queued to run after the scripts are loaded: a function
\* either returns or throws
PostScriptFns == {[id |-> "s", throws |-> FALSE], [id |-> "t", throws |-> TRUE]}

\* The batches the capability handle's runActions is called with
ExtBatches == {<<SetA1>>, <<SetA2, InvalidateQ>>, <<HtmlAction>>}

\* The arguments of setGlobalData: a whole root
GlobalDatas == [RootPaths -> DataValues]

\* DataCtx.SetPath on a path of the root data: the value at the path becomes
\* the data
SetPath(root, path, data) == [root EXCEPT ![path] = data]

\* The loop of fireScriptsLoaded: every queued function is shifted off the
\* queue and called in order, an exception is logged and the loop goes on
RunPostScriptQueue(queue) ==
    [invoked |-> queue,
     logged |-> SelectSeq(queue, LAMBDA fn : fn.throws),
     queue |-> <<>>]

\* queuePostScriptRunFn: once the scripts are loaded the function is handed
\* to setTimeout and not queued
QueuePostScriptRunFn(loaded, queue, fn) ==
    IF loaded THEN [queue |-> queue, timeout |-> <<fn>>]
    ELSE [queue |-> Append(queue, fn), timeout |-> <<>>]

\* What an operation of this section did: the functions it called or handed
\* to setTimeout, and the exceptions it logged
ExtOp(op, invoked, logged) == [op |-> op, invoked |-> invoked, logged |-> logged]
NoExtCall == ExtOp("none", <<>>, <<>>)

ExtIdle == pstatus = "idle" /\ sweep = NoSweep /\ extCall = NoExtCall

\* HibikiExtState.setData(path, data)
setData ==
    /\ ExtIdle
    /\ \E path \in RootPaths, data \in DataValues :
        DataRoots' = SetPath(DataRoots, path, data)
    /\ extCall' = ExtOp("setData", <<>>, <<>>)
    /\ UNCHANGED <<HtmlObj, DataNodeStates, rra, pureRequest, idx, rtnval, pstatus,
                   refreshLog, rootBefore, htmlBefore>>
    /\ UNCHANGED <<ScriptsLoaded, PostScriptRunQueue, scriptsloaded>>
    /\ UNCHANGED <<evars, svars, hvars, cvars, fvars, wvars, ivars, lvars>>

\* HibikiState.setGlobalData(globalData)
setGlobalData ==
    /\ ExtIdle
    /\ \E globalData \in GlobalDatas : DataRoots' = globalData
    /\ extCall' = ExtOp("setGlobalData", <<>>, <<>>)
    /\ UNCHANGED <<HtmlObj, DataNodeStates, rra, pureRequest, idx, rtnval, pstatus,
                   refreshLog, rootBefore, htmlBefore>>
    /\ UNCHANGED <<ScriptsLoaded, PostScriptRunQueue, scriptsloaded>>
    /\ UNCHANGED <<evars, svars, hvars, cvars, fvars, wvars, ivars, lvars>>

\* HibikiState.fireScriptsLoaded()
fireScriptsLoaded ==
    /\ ExtIdle
    /\ ScriptsLoaded' = TRUE
    /\ scriptsloaded' = TRUE
    /\ LET run == RunPostScriptQueue(PostScriptRunQueue) IN
        /\ PostScriptRunQueue' = run.queue
        /\ extCall' = ExtOp("fireScriptsLoaded", run.invoked, run.logged)
    /\ UNCHANGED <<pvars, evars, svars, hvars, cvars, fvars, wvars, ivars, lvars>>

\* HibikiState.queuePostScriptRunFn(fn)
queuePostScriptRunFn ==
    /\ ExtIdle
    /\ Len(PostScriptRunQueue) < MaxPostScript
    /\ \E fn \in PostScriptFns :
        LET q == QueuePostScriptRunFn(ScriptsLoaded, PostScriptRunQueue, fn) IN
            /\ PostScriptRunQueue' = q.queue
            /\ extCall' = ExtOp("queuePostScriptRunFn", q.timeout, <<>>)
    /\ UNCHANGED <<ScriptsLoaded, scriptsloaded>>
    /\ UNCHANGED <<pvars, evars, svars, hvars, cvars, fvars, wvars, ivars, lvars>>

\* HibikiExtState.runActions(actions)
extRunActions ==
    /\ ExtIdle
    /\ \E batch \in ExtBatches : processActions(batch, FALSE)

\* The caller has seen what the operation did
ExtReturns ==
    /\ extCall # NoExtCall
    /\ extCall' = NoExtCall
    /\ UNCHANGED <<ScriptsLoaded, PostScriptRunQueue, scriptsloaded>>
    /\ UNCHANGED <<pvars, evars, svars, hvars, cvars, fvars, wvars, ivars, lvars>>

----------------------------------------------------------------------------
(* References (LValue), the copy of values, and handleConvertType *)

\* Bound on the number of plain objects held in composite values
MaxObjects == 2

\* The values: null, undefined, a number, a string, an error object
LNull == [kind |-> "null", v |-> 0, message |-> ""]
LUndefined == [kind |-> "undefined", v |-> 0, message |-> ""]
LVal(n) == [kind |-> "value", v |-> n, message |-> ""]
LStr(s) == [kind |-> "string", v |-> 0, message |-> s]
LErr(message) == [kind |-> "error", v |-> 0, message |-> message]

\* A reference: a root and a path into it. The arguments root is read-only,
\* and so is the path segment "b"
RefRoots == {"state", "args"}
RefPaths == {"a", "b", "c"}
ReadOnlyRoots == {"args"}
ReadOnlySegments == {"b"}
Location(root, path) == [root |-> root, path |-> path]
Locations ==
    {Location("state", p) : p \in RefPaths} \cup {Location("args", "a")}
NoRef == Location("none", "none")

\* The values of the locations at the start: the arguments are given, the
\* state is empty
StoreAtStart == [l \in Locations |-> IF l.root = "args" THEN LVal(1) ELSE LNull]

IsReadOnly(ref) == ref.root \in ReadOnlyRoots \/ ref.path \in ReadOnlySegments

\* LValue.get(): the current value at the path
LGet(st, ref) == st[ref]

\* LValue.set as it was before v0.2.1: a read-only target is an error
LSet_Throws(st, ref, value) ==
    IF IsReadOnly(ref)
    THEN [store |-> st, threw |-> TRUE]
    ELSE [store |-> [st EXCEPT ![ref] = value], threw |-> FALSE]

\* LValue.set(value): writes the value at the path; a read-only target is
\* silently ignored
LSet(st, ref, value) ==
    IF IsReadOnly(ref)
    THEN [store |-> st, threw |-> FALSE]
    ELSE [store |-> [st EXCEPT ![ref] = value], threw |-> FALSE]

\* A composite value: a field that holds a reference and a field that holds
\* a plain nested object, the object by its identity
Composite(ref, obj, copyOf) == [ref |-> ref, obj |-> obj, copyOf |-> copyOf]

\* A copy that shares the plain nested object with its source
DeepCopy_Shallow(objs, comp, src) ==
    [objects |-> Append(objs, objs[comp.obj]),
     copy |-> Composite(comp.ref, comp.obj, src)]

\* DeepCopy of a composite value: the reference is kept, the plain nested
\* object is cloned into a new object
DeepCopy(objs, comp, src) ==
    [objects |-> Append(objs, objs[comp.obj]),
     copy |-> Composite(comp.ref, Len(objs) + 1, src)]

\* JSON.parse of the strings converted here
JsonParse(str) ==
    CASE str = "1" -> [threw |-> FALSE, value |-> LVal(1)]
      [] str = "2" -> [threw |-> FALSE, value |-> LVal(2)]
      [] OTHER -> [threw |-> TRUE, value |-> LStr(str)]

ConvertTypes == {"null", "json", "json:array"}
ConvertInputs == {LNull, LStr(""), LStr("1"), LStr("2"), LStr("x")}

\* The try block of handleConvertType up to the two set calls: the value
\* converted, or the exception and the value held when it was thrown
ConvertValue(convertType, value) ==
    LET subType == IF convertType = "json:array" THEN "array" ELSE "null"
        parsed == IF value = LNull \/ value = LStr("")
                  THEN [threw |-> FALSE, value |-> LNull]
                  ELSE JsonParse(value.message)
    IN  IF parsed.threw
        THEN [threw |-> TRUE, value |-> value, e |-> "SyntaxError"]
        ELSE IF subType = "array" /\ parsed.value # LNull
        THEN [threw |-> TRUE, value |-> parsed.value,
              e |-> "Error: JSON value is not an array"]
        ELSE [threw |-> FALSE, value |-> parsed.value, e |-> ""]

\* handleConvertType(ctx, value), convertLV and convertErrorLV being the
\* references that convertoutput and converterror resolve to
HandleConvertType(st, convertType, convertLV, convertErrorLV, value) ==
    IF convertType = "null" THEN [store |-> st, rtn |-> LUndefined]
    ELSE LET conv == ConvertValue(convertType, value) IN
        IF ~conv.threw
        THEN [store |-> LSet(LSet(st, convertLV, conv.value).store,
                             convertErrorLV, LNull).store,
              rtn |-> conv.value]
        ELSE [store |-> LSet(LSet(st, convertLV, LNull).store,
                             convertErrorLV, LErr(conv.e)).store,
              rtn |-> conv.value]

\* What an operation of this section did
RefOp(op, ref, value, returned, threw, index, src) ==
    [op |-> op, ref |-> ref, value |-> value, returned |-> returned,
     threw |-> threw, index |-> index, src |-> src]
NoRefCall == RefOp("none", NoRef, LNull, LNull, FALSE, 0, 0)

\* set(value) through a reference
refSet ==
    /\ refCall = NoRefCall
    /\ \E ref \in Locations, n \in DataValues :
        LET r == LSet(store, ref, LVal(n)) IN
            /\ store' = r.store
            /\ refCall' = RefOp("set", ref, LVal(n), LNull, r.threw, 0, 0)
    /\ UNCHANGED <<objects, composites>>
    /\ UNCHANGED <<pvars, evars, svars, hvars, cvars, fvars, wvars, ivars, xvars>>

\* get() through a reference
refGet ==
    /\ refCall = NoRefCall
    /\ \E ref \in Locations :
        refCall' = RefOp("get", ref, LNull, LGet(store, ref), FALSE, 0, 0)
    /\ UNCHANGED <<store, objects, composites>>
    /\ UNCHANGED <<pvars, evars, svars, hvars, cvars, fvars, wvars, ivars, xvars>>

\* handleConvertType on an input of a node
handleConvertType ==
    /\ refCall = NoRefCall
    /\ \E convertType \in ConvertTypes, convertLV \in Locations,
          convertErrorLV \in Locations, value \in ConvertInputs :
        LET r == HandleConvertType(store, convertType, convertLV, convertErrorLV, value) IN
            /\ store' = r.store
            /\ refCall' = RefOp("handleConvertType", convertLV, value, r.rtn, FALSE, 0, 0)
    /\ UNCHANGED <<objects, composites>>
    /\ UNCHANGED <<pvars, evars, svars, hvars, cvars, fvars, wvars, ivars, xvars>>

\* The references held in composite values: a writable and a read-only one
CompositeRefs == {Location("state", "a"), Location("args", "a")}

\* A composite value is built: a reference and a new plain object
NewComposite ==
    /\ refCall = NoRefCall
    /\ Len(objects) < MaxObjects
    /\ \E ref \in CompositeRefs, n \in DataValues :
        /\ objects' = Append(objects, LVal(n))
        /\ composites' = Append(composites, Composite(ref, Len(objects) + 1, 0))
    /\ UNCHANGED <<store, refCall>>
    /\ UNCHANGED <<pvars, evars, svars, hvars, cvars, fvars, wvars, ivars, xvars>>

\* A composite value is copied
deepCopy ==
    /\ refCall = NoRefCall
    /\ Len(objects) < MaxObjects
    /\ \E i \in 1..Len(composites) :
        LET r == DeepCopy(objects, composites[i], i) IN
            /\ objects' = r.objects
            /\ composites' = Append(composites, r.copy)
            /\ refCall' = RefOp("deepCopy", r.copy.ref, LNull, LNull, FALSE,
                                Len(composites) + 1, i)
    /\ UNCHANGED store
    /\ UNCHANGED <<pvars, evars, svars, hvars, cvars, fvars, wvars, ivars, xvars>>

\* The plain object of a composite value is changed
SetObjectField ==
    /\ refCall = NoRefCall
    /\ \E i \in 1..Len(composites), n \in DataValues :
        /\ objects' = [objects EXCEPT ![composites[i].obj] = LVal(n)]
        /\ refCall' = RefOp("setObjectField", composites[i].ref, LVal(n), LNull,
                            FALSE, i, 0)
    /\ UNCHANGED <<store, composites>>
    /\ UNCHANGED <<pvars, evars, svars, hvars, cvars, fvars, wvars, ivars, xvars>>

\* set(value) through the reference a composite value holds
SetThroughComposite ==
    /\ refCall = NoRefCall
    /\ \E i \in 1..Len(composites), n \in DataValues :
        LET r == LSet(store, composites[i].ref, LVal(n)) IN
            /\ store' = r.store
            /\ refCall' = RefOp("setThrough", composites[i].ref, LVal(n), LNull,
                                r.threw, i, 0)
    /\ UNCHANGED <<objects, composites>>
    /\ UNCHANGED <<pvars, evars, svars, hvars, cvars, fvars, wvars, ivars, xvars>>

\* The caller has seen what the operation did
RefReturns ==
    /\ refCall # NoRefCall
    /\ refCall' = NoRefCall
    /\ UNCHANGED <<store, objects, composites>>
    /\ UNCHANGED <<pvars, evars, svars, hvars, cvars, fvars, wvars, ivars, xvars>>

----------------------------------------------------------------------------
(* The scope a handler runs in: fireEvent on scopes with data and specials *)

\* Bound on the length of the chain of scopes an event is fired in
MaxChain == 2

DispatchEvents == {"click", "hover"}
DispatchHandlerSets == {{}, {"click"}}

\* The mapping a caller of fireEvent builds as the event's data context
OwnDataContext == [k \in {"x"} |-> 1]

\* A scope made for the handler with the firing scope as its parent
HandlerEnv_OfFiringScope(sc, hp, from, env, arg) ==
    LET made == MakeChildEnvCopy(hp, arg) IN
    [heap |-> made.heap,
     scope |-> Scope(from, sc[from].data, TRUE, made.specials, arg),
     env |-> MakeChildEnv(from, Undefined, {})]

\* eventEnv = env.makeSpecialChildEnv(event.datacontext, {htmlContext}) in
\* fireEvent, env being the boundary whose handler is executed:
\* makeChildEnv(env.data, specials, opts), then onlySpecials = true; the
\* opts carry neither eventBoundary nor handlers
HandlerEnv(sc, hp, from, env, arg) ==
    LET made == MakeChildEnvCopy(hp, arg) IN
    [heap |-> made.heap,
     scope |-> Scope(env, sc[env].data, TRUE, made.specials, arg),
     env |-> MakeChildEnv(env, Undefined, {})]

\* new DataEnvironment(dbstate, data, opts): the root of the chain; the
\* constructor sets specials = {}
newDispatchRoot ==
    /\ envs = <<>>
    /\ scopes = <<>>
    /\ \E boundary \in Boundaries, handlers \in DispatchHandlerSets, data \in LocalData :
        /\ envs' = <<DataEnvironment(boundary, handlers)>>
        /\ scopes' = <<Scope(0, data, FALSE, 1, 0)>>
    /\ heap' = <<EmptyObj>>
    /\ UNCHANGED <<fired, outcome, result>>
    /\ UNCHANGED <<pvars, hvars, rvars>>

\* env.makeChildEnv(data, undefined, opts) on the innermost scope
makeDispatchChild ==
    /\ envs # <<>>
    /\ Len(envs) = Len(scopes)
    /\ fired = NoFire
    /\ Len(envs) < MaxChain
    /\ \E boundary \in Boundaries, handlers \in DispatchHandlerSets, data \in LocalData :
        LET made == MakeChildEnvCopy(heap, 0) IN
            /\ envs' = Append(envs, MakeChildEnv(Len(envs), boundary, handlers))
            /\ scopes' = Append(scopes, Scope(Len(scopes), data, FALSE, made.specials, 0))
            /\ heap' = made.heap
    /\ UNCHANGED <<fired, outcome, result>>
    /\ UNCHANGED <<pvars, hvars, rvars>>

\* env.fireEvent({event, bubble, datacontext}, rtctx) on any scope of the
\* chain, with the scope it makes for the handler. The data context is
\* undefined (0), the specials of a scope of the chain, or a mapping of the
\* caller's own
fireEventEnv ==
    /\ envs # <<>>
    /\ Len(envs) = Len(scopes)
    /\ fired = NoFire
    /\ \E i \in 1..Len(envs), event \in DispatchEvents, bubble \in BOOLEAN,
          dc \in 0..(Len(heap) + 1) :
        LET ev == [from |-> i, event |-> event, bubble |-> bubble,
                   hasError |-> FALSE, throwErrors |-> FALSE, handlerStr |-> "ok"]
            res == FireEvent(envs, i, ev, FALSE, <<>>)
            hp == IF dc = Len(heap) + 1 THEN Append(heap, OwnDataContext) ELSE heap
            made == HandlerEnv(scopes, hp, i, res.handlerEnv, dc)
        IN /\ fired' = ev
           /\ outcome' = res
           /\ IF res.handlerEnv # 0
              THEN /\ envs' = Append(envs, made.env)
                   /\ scopes' = Append(scopes, made.scope)
                   /\ heap' = made.heap
              ELSE /\ dc = 0
                   /\ UNCHANGED <<envs, scopes, heap>>
    /\ UNCHANGED result
    /\ UNCHANGED <<pvars, hvars, rvars>>

\* The handler writes through the context proxy of its scope
HandlerWrites ==
    /\ fired # NoFire
    /\ outcome.handlerEnv # 0
    /\ \E prop \in WriteKeys, value \in WriteValues :
        heap' = [heap EXCEPT ![scopes[Len(scopes)].specials] = SetProperty(@, prop, value)]
    /\ heap' # heap
    /\ UNCHANGED <<envs, fired, outcome, scopes, result>>
    /\ UNCHANGED <<pvars, hvars, rvars>>

\* The handler is over: its scope and the caller's mapping are dropped
DispatchReturns ==
    /\ fired # NoFire
    /\ fired' = NoFire
    /\ outcome' = NoOutcome
    /\ IF outcome.handlerEnv # 0
       THEN /\ envs' = SubSeq(envs, 1, Len(envs) - 1)
            /\ scopes' = SubSeq(scopes, 1, Len(scopes) - 1)
            /\ heap' = SubSeq(heap, 1, Len(scopes) - 1)
       ELSE UNCHANGED <<envs, scopes, heap>>
    /\ UNCHANGED result
    /\ UNCHANGED <<pvars, hvars, rvars>>

----------------------------------------------------------------------------
(* The context proxy of a scope *)

\* Bound on the length of the chain of scopes whose proxies are used
MaxProxyScopes == 2

\* The properties read and written through a proxy: a key of specials, a
\* property inherited from Object.prototype, and null
ProxyProps == LookupKeys \cup {Undefined}
ProxyWriteProps == WriteKeys \cup ObjectPrototypeKeys \cup {Undefined}

\* The get trap of getContextProxy for null and for a string (the symbols
\* SYM_PROXY and SYM_FLATTEN are not read here)
ProxyGet(sc, hp, i, prop) ==
    IF prop = Undefined THEN ReturnsNullValue
    ELSE GetContextKey(sc, hp, i, prop)

\* The set trap of getContextProxy: null is ignored, otherwise
\* self.specials[prop] = value
ProxySet(sc, hp, i, prop, value) ==
    IF prop = Undefined THEN hp
    ELSE [hp EXCEPT ![sc[i].specials] = SetProperty(@, prop, value)]

\* env.makeChildEnv(data, specials) on the innermost scope, with no mapping
\* or with a mapping of the caller's own
makeProxyChild ==
    /\ scopes # <<>>
    /\ result = NoResult
    /\ Len(scopes) < MaxProxyScopes
    /\ \E own \in BOOLEAN :
        LET hp == IF own THEN Append(heap, [k \in {"x"} |-> 1]) ELSE heap
            arg == IF own THEN Len(hp) ELSE 0
            made == MakeChildEnvCopy(hp, arg)
        IN /\ heap' = made.heap
           /\ scopes' = Append(scopes, Scope(Len(scopes), 1, FALSE, made.specials, arg))
    /\ UNCHANGED result
    /\ UNCHANGED <<pvars, evars, hvars, rvars>>

\* proxy[prop] = value on the context proxy of a scope
proxySet ==
    /\ scopes # <<>>
    /\ result = NoResult
    /\ \E i \in 1..Len(scopes), prop \in ProxyWriteProps, value \in WriteValues :
        /\ heap' = ProxySet(scopes, heap, i, prop, value)
        /\ result' = Call("proxySet", i, prop, FALSE, 0, ReturnsNumber(value))
    /\ UNCHANGED scopes
    /\ UNCHANGED <<pvars, evars, hvars, rvars>>

\* proxy[prop] on the context proxy of a scope
proxyGet ==
    /\ scopes # <<>>
    /\ result = NoResult
    /\ \E i \in 1..Len(scopes), prop \in ProxyProps :
        result' = Call("proxyGet", i, prop, FALSE, 0, ProxyGet(scopes, heap, i, prop))
    /\ UNCHANGED <<scopes, heap>>
    /\ UNCHANGED <<pvars, evars, hvars, rvars>>

----------------------------------------------------------------------------
(* Claims about the capability handle, references and copies *)

\* C31: the root data (the paths of the roots and $state.hibiki.scriptsloaded)
\* changes only in a step of the action pipeline, and the registry of data
\* node states only in registerDataNodeState and unregisterDataNodeState
C31_RootOnlyByPipeline ==
    [][/\ (DataRoots' # DataRoots \/ scriptsloaded' # scriptsloaded) => extRunActions
       /\ DataNodeStates' # DataNodeStates =>
            (registerDataNodeState \/ unregisterDataNodeState)]_vars

SetStep == refCall = NoRefCall /\ refCall'.op \in {"set", "setThrough"}

\* C32: a set through a reference never throws; when the root or the path
\* segment of the reference is read-only the values of all locations stay as
\* they are; when it is writable the value at the reference becomes the
\* written one, a get returns the value at its reference, and the value at
\* a location changes only in a step that sets
C32_ReadOnlySetIgnored ==
    [][/\ SetStep =>
            /\ ~refCall'.threw
            /\ IsReadOnly(refCall'.ref) => store' = store
            /\ ~IsReadOnly(refCall'.ref) =>
                  /\ LGet(store', refCall'.ref) = refCall'.value
                  /\ \A l \in Locations \ {refCall'.ref} : store'[l] = store[l]
       /\ (refCall = NoRefCall /\ refCall'.op = "get") =>
            refCall'.returned = store[refCall'.ref]
       /\ store' # store =>
            /\ refCall = NoRefCall
            /\ refCall'.op \in {"set", "setThrough", "handleConvertType"}
       /\ \A l \in Locations : IsReadOnly(l) => store'[l] = store[l]]_vars

\* C32 witness: a set of 2 through the reference into the arguments root,
\* whose value is still 1
C32_Witness ==
    /\ refCall.op = "set"
    /\ refCall.ref = Location("args", "a")
    /\ refCall.value = LVal(2)
    /\ ~refCall.threw
    /\ LGet(store, refCall.ref) = LVal(1)

\* C33: the copy of a composite value holds the reference of its source and
\* a new object with the content of the source's object; a change of the
\* object of one composite value changes no other one's object, and a write
\* through the reference of a composite value is read through the reference
\* of its copies and of its source
C33_CopySharesReferences ==
    [][/\ (refCall = NoRefCall /\ refCall'.op = "deepCopy") =>
            LET c == composites'[refCall'.index]
                s == composites[refCall'.src]
            IN  /\ c.ref = s.ref
                /\ objects'[c.obj] = objects[s.obj]
                /\ \A j \in 1..Len(composites) : composites[j].obj # c.obj
       /\ (refCall = NoRefCall /\ refCall'.op = "setObjectField") =>
            /\ objects'[composites[refCall'.index].obj] = refCall'.value
            /\ \A j \in 1..Len(composites) :
                  j # refCall'.index =>
                      objects'[composites[j].obj] = objects[composites[j].obj]
       /\ (refCall = NoRefCall /\ refCall'.op = "setThrough"
             /\ ~IsReadOnly(refCall'.ref)) =>
            \A j \in 1..Len(composites) :
                (composites[j].copyOf = refCall'.index
                   \/ composites[refCall'.index].copyOf = j) =>
                    LGet(store', composites[j].ref) = refCall'.value]_vars

\* C33 witness: the object of a copy was changed and differs from the object
\* of its source, while both hold the same writable reference
C33_Witness ==
    /\ refCall.op = "setObjectField"
    /\ composites[refCall.index].copyOf # 0
    /\ LET c == composites[refCall.index]
           s == composites[c.copyOf]
       IN  /\ objects[c.obj] # objects[s.obj]
           /\ c.ref = s.ref
           /\ ~IsReadOnly(c.ref)

\* The step in which fireEvent selects a handler and makes its scope
HandlerSelected == fired = NoFire /\ fired' # NoFire /\ outcome'.handlerEnv # 0

\* C34: the scope fireEvent makes for the handler it selected has as parent
\* the boundary scope that declares the handler, is onlySpecials, has the
\* data and the local stack of that boundary scope, and has as specials a new
\* object with the content of the event's data context; making it and
\* writing through its context proxy change the specials of no other scope
\* and not the caller's data context
C34_HandlerScope ==
    [][/\ HandlerSelected =>
            LET h == outcome'.handlerEnv
                e == Len(scopes')
                arg == scopes'[e].arg
            IN  /\ e = Len(scopes) + 1
                /\ scopes'[e].parent = h
                /\ envs'[e].parent = h
                /\ envs[h].eventBoundary \in {"soft", "hard"}
                /\ fired'.event \in envs[h].handlers
                /\ scopes'[e].onlySpecials
                /\ scopes'[e].data = scopes[h].data
                /\ GetLocalStack(scopes', e) = GetLocalStack(scopes, h)
                /\ scopes'[e].specials \notin {scopes[j].specials : j \in 1..Len(scopes)}
                /\ scopes'[e].specials # arg
                /\ heap'[scopes'[e].specials] = (IF arg = 0 THEN EmptyObj ELSE heap'[arg])
                /\ \A j \in 1..Len(scopes) :
                      /\ scopes'[j] = scopes[j]
                      /\ heap'[scopes[j].specials] = heap[scopes[j].specials]
       /\ (fired # NoFire /\ fired' = fired /\ heap' # heap) =>
            LET e == Len(scopes) IN
                /\ heap'[scopes[e].specials] # heap[scopes[e].specials]
                /\ \A j \in 1..(e - 1) :
                      heap'[scopes[j].specials] = heap[scopes[j].specials]
                /\ scopes[e].arg # 0 => heap'[scopes[e].arg] = heap[scopes[e].arg]]_vars

\* C34 witness: an event fired in a scope below the boundary that declares
\* the handler, with the specials of the boundary as data context; the
\* handler has written to its scope and the boundary's specials are empty
C34_Witness ==
    /\ fired # NoFire
    /\ outcome.handlerEnv # 0
    /\ fired.from # outcome.handlerEnv
    /\ scopes[Len(scopes)].parent = outcome.handlerEnv
    /\ scopes[Len(scopes)].arg = scopes[outcome.handlerEnv].specials
    /\ heap[scopes[Len(scopes)].specials] = SetProperty(EmptyObj, "x", 3)
    /\ heap[scopes[outcome.handlerEnv].specials] = EmptyObj
    /\ scopes[Len(scopes)].data # scopes[fired.from].data

\* The scopes whose lookup of the key passes through scope s: s itself and
\* the descendants from which no scope below s binds the key
RECURSIVE ReadsThrough(_, _, _, _, _)
ReadsThrough(sc, hp, d, s, key) ==
    IF d = s THEN TRUE
    ELSE IF d = 0 THEN FALSE
    ELSE IF key \in DOMAIN hp[sc[d].specials] THEN FALSE
    ELSE ReadsThrough(sc, hp, sc[d].parent, s, key)

\* C35: a write of a key through the context proxy of a scope changes the
\* specials of that scope only, and afterwards the key read through the
\* proxy of that scope, or of a descendant with no binding of the key from
\* it up to that scope, is the written value; a read through a proxy is the
\* shadow lookup
C35_ProxyWritesLocally ==
    [][/\ (result = NoResult /\ result'.op = "proxySet" /\ result'.name # Undefined) =>
            LET s == result'.scope
                key == result'.name
            IN  /\ \A j \in 1..Len(scopes) :
                      j # s => heap'[scopes[j].specials] = heap[scopes[j].specials]
                /\ \A d \in 1..Len(scopes) :
                      ReadsThrough(scopes, heap', d, s, key) =>
                          ProxyGet(scopes, heap', d, key) = result'.out
       /\ (result = NoResult /\ result'.op = "proxyGet") =>
            result'.out = ProxyGet(scopes, heap, result'.scope, result'.name)]_vars

----------------------------------------------------------------------------
(* Claims about the paths of the pipeline, the registry and the dispatch *)

\* The calls processActions made for the action at position i of the batch
\* of the last call
PathsAt(i) ==
    LET st == LoopProcessActions([CallState EXCEPT !.root = rootBefore,
                                                  !.html = htmlBefore],
                                 rra, 1, pureRequest)
    IN {st.paths[k].path : k \in {n \in 1..Len(st.paths) : st.paths[n].pos = i}}

\* C36: in a call with side effects that returned, every action that is no
\* capture of the return value went through exactly one call: an invalidate
\* action through invalidateRegex only, an html action through the swap of
\* the node tree only, any other action through ApplySingleRRA only
C36_ExactlyOnePath ==
    (pstatus = "returned" /\ ~pureRequest) =>
        \A i \in 1..Len(rra) :
            ~IsRtnAction(rra[i]) =>
                PathsAt(i) = IF rra[i].type = "invalidate" THEN {"invalidateRegex"}
                             ELSE IF rra[i].type = "html" THEN {"parseHtml"}
                             ELSE {"ApplySingleRRA"}

\* The entries of a registry other than those of the id, in their order
OtherEntries(nodes, uuid) == SelectSeq(nodes, LAMBDA e : e.uuid # uuid)

\* The entries of a registry with the id
EntriesOf(nodes, uuid) == {k \in 1..Len(nodes) : nodes[k].uuid = uuid}

\* C37: the registry holds at most one entry per id; a step that changes it
\* either removes the entry of one id or makes one registration the only
\* entry of its id, and leaves the entries of the other ids as they are; a
\* sweep calls forceRefresh of entries of the registry only. So an entry
\* that was unregistered or replaced is never refreshed again
C37_OnlyLatestRegistration ==
    [][/\ \A uuid \in SweepUuids : Cardinality(EntriesOf(DataNodeStates', uuid)) <= 1
       /\ DataNodeStates' # DataNodeStates =>
            \E uuid \in SweepUuids :
                /\ OtherEntries(DataNodeStates', uuid) = OtherEntries(DataNodeStates, uuid)
                /\ \/ EntriesOf(DataNodeStates', uuid) = {}
                   \/ \E k \in 1..Len(DataNodeStates') :
                         /\ EntriesOf(DataNodeStates', uuid) = {k}
                         /\ EntriesOf(DataNodeStates, uuid) \in {{}, {k}}
       /\ (sweep = NoSweep /\ sweep' # NoSweep) =>
            \A c \in 1..Len(sweep'.called) :
                \E k \in 1..Len(DataNodeStates) : sweep'.called[c] = DataNodeStates[k]]_vars

\* C37 witness: invalidateAll on a registry in which n1 stands before n2 and
\* has the query r: both entries are refreshed, each once
C37_Witness ==
    /\ sweep.op = "invalidateAll"
    /\ Len(DataNodeStates) = 2
    /\ DataNodeStates[1] = [uuid |-> "n1", query |-> "r", dnstate |-> "refreshes"]
    /\ DataNodeStates[2].uuid = "n2"
    /\ sweep.called = DataNodeStates

----------------------------------------------------------------------------
(* Claims about repeated and failed initialization (InitSpec) *)

\* C39: the callbacks of InitCallbacks are invoked once: an operation on a
\* state that is already initialized invokes none of them again
C39_CallbacksAtMostOnce ==
    [][(/\ Initialized
        /\ initCall = NoInitCall
        /\ initCall'.op \in {"initialize", "initHandler", "setInitialized"}) =>
            initCall'.invoked = <<>>]_vars

\* The init handler failed in this step: its text did not parse when
\* initialize fired the event, or its promise rejected
InitHandlerFails ==
    /\ initCall = NoInitCall
    /\ \/ /\ initCall'.op = "initialize"
          /\ initCall'.thrown
       \/ /\ initCall'.op = "initHandler"
          /\ Head(pendingInit) = "rejected"

\* C40: initialize marks the state initialized either at once, firing no
\* event, or in the step in which the promise of the init handler resolves;
\* when the init handler fails the state stays as it was, no queued callback
\* is invoked and the failure is delivered once to the error reporter
C40_InitializedOnlyOnSuccess ==
    [][/\ (~Initialized /\ Initialized' /\ initCall'.op # "setInitialized") =>
            \/ /\ initCall'.op = "initialize"
               /\ pendingInit' = pendingInit
            \/ /\ initCall'.op = "initHandler"
               /\ Head(pendingInit) = "resolved"
       /\ InitHandlerFails =>
            /\ Initialized' = Initialized
            /\ initCall'.invoked = <<>>
            /\ Len(initCall'.delivered) = 1]_vars

----------------------------------------------------------------------------
(* Initial state and specifications *)

Init ==
    /\ DataRoots = [p \in RootPaths |-> 0]
    /\ HtmlObj = 0
    /\ DataNodeStates = <<>>
    /\ rra = <<>>
    /\ pureRequest = FALSE
    /\ idx = 1
    /\ rtnval = NullRtn
    /\ pstatus = "idle"
    /\ refreshLog = <<>>
    /\ rootBefore = [p \in RootPaths |-> 0]
    /\ htmlBefore = 0
    /\ envs = <<>>
    /\ fired = NoFire
    /\ outcome = NoOutcome
    /\ scopes = <<>>
    /\ heap = <<>>
    /\ result = NoResult
    /\ Modules = {FetchName}
    /\ handlerCall = NoHandlerCall
    /\ inflight = <<>>
    /\ lastCall = NoCall
    /\ fetchCall = NoFetchCall
    /\ sweep = NoSweep
    /\ Initialized = FALSE
    /\ InitCallbacks = <<>>
    /\ Config = HibikiConfig(Null, Null)
    /\ ErrorCallback = Null
    /\ pendingInit = <<>>
    /\ initCall = NoInitCall
    /\ ScriptsLoaded = FALSE
    /\ PostScriptRunQueue = <<>>
    /\ scriptsloaded = FALSE
    /\ extCall = NoExtCall
    /\ store = StoreAtStart
    /\ objects = <<>>
    /\ composites = <<>>
    /\ refCall = NoRefCall

Next ==
    \/ runActions
    \/ returnValueFromActions
    \/ ProcessActionsNull
    \/ ReturnToCaller
    \/ registerDataNodeState
    \/ unregisterDataNodeState

Spec == Init /\ [][Next]_vars

EventNext ==
    \/ NewDataEnvironment
    \/ makeChildEnv
    \/ fireEvent
    \/ FireEventReturns

EventSpec == Init /\ [][EventNext]_vars

ScopeNext ==
    \/ rootDataenv
    \/ makeChildEnvData
    \/ makeSpecialChildEnv
    \/ SetSpecial
    \/ getContextKey
    \/ getSquashedContext
    \/ WriteReturned
    \/ getLocalStack
    \/ getContextStack
    \/ resolveRoot
    \/ LookupReturns

ScopeSpec == Init /\ [][ScopeNext]_vars

HandlerNext ==
    \/ RegisterModule
    \/ callHandlerPath
    \/ CallHandlerReturns

HandlerSpec == Init /\ [][HandlerNext]_vars

GatewayNext ==
    \/ RegisterModule
    \/ registerDataNodeState
    \/ callHandler
    \/ callData
    \/ ModuleRejects
    \/ ModuleSettles
    \/ CallReturns

GatewaySpec == Init /\ [][GatewayNext]_vars

FetchNext ==
    \/ fetchCallHandler
    \/ FetchCallReturns

FetchSpec == Init /\ [][FetchNext]_vars

SweepNext ==
    \/ RegisterSweepNode
    \/ UnregisterSweepNode
    \/ invalidate
    \/ invalidateRegex
    \/ invalidateAll
    \/ SweepReturns

SweepSpec == Init /\ [][SweepNext]_vars

InitNext ==
    \/ setInitCallback
    \/ setInitialized
    \/ initialize
    \/ InitHandlerSettles
    \/ setConfig
    \/ reportErrorObj
    \/ InitReturns

InitSpec == Init /\ [][InitNext]_vars

ExtNext ==
    \/ setData
    \/ setGlobalData
    \/ fireScriptsLoaded
    \/ queuePostScriptRunFn
    \/ extRunActions
    \/ ReturnToCaller
    \/ registerDataNodeState
    \/ unregisterDataNodeState
    \/ invalidateAll
    \/ SweepReturns
    \/ ExtReturns

ExtSpec == Init /\ [][ExtNext]_vars

RefNext ==
    \/ refSet
    \/ refGet
    \/ handleConvertType
    \/ NewComposite
    \/ deepCopy
    \/ SetObjectField
    \/ SetThroughComposite
    \/ RefReturns

RefSpec == Init /\ [][RefNext]_vars

DispatchNext ==
    \/ newDispatchRoot
    \/ makeDispatchChild
    \/ fireEventEnv
    \/ HandlerWrites
    \/ DispatchReturns

DispatchSpec == Init /\ [][DispatchNext]_vars

ProxyNext ==
    \/ rootDataenv
    \/ makeProxyChild
    \/ proxySet
    \/ proxyGet
    \/ LookupReturns

ProxySpec == Init /\ [][ProxyNext]_vars

====
